---- MODULE Spec2Model ----
(***************************************************************************)
(* EcoScan AI service (src/api/main.py): the classifier's warm-up          *)
(* lifecycle, the classify pipeline of a detect request, the rolling       *)
(* performance statistics, the periodic cache clean-up task, the device    *)
(* optimizer and the confidence filter with the enrichment that follows.   *)
(*                                                                         *)
(* Scheduling: every coroutine runs on one asyncio event loop, so the code *)
(* between two suspension points (await of a lock, a sleep, an executor    *)
(* future) is one atomic step; each action below is one such step.         *)
(***************************************************************************)
EXTENDS Integers, Sequences, FiniteSets, TLC

\* ------------------------------------------------------------------ bounds
NumTasks == 2          \* callers of warm_up / detect_waste
MaxTime  == 2          \* largest measured processing time (abstract units)
MaxTicks == 3          \* steps of the wall clock
MaxCapacity == 9       \* largest memory (GB) and core count of a descriptor
MaxGpu == 2            \* largest accelerator tier of a descriptor
MaxCalls == 2          \* optimizer calls made with the same inputs
MaxDetections == 3     \* longest list of drawn raw detections
MaxRequests == 2       \* detect requests that differ in their threshold only

\* ------------------------------------------------------- program constants
TTL            == 600  \* idle seconds after which a cached model is expired
GC_INTERVAL    == 60   \* seconds between garbage collections

Tasks     == 1..NumTasks
ProcTimes == 1..MaxTime
ModelKeys == {"detection", "classification"}
\* request.device_info of a detect request: None, or a device descriptor.
DetectDevices == {<<>>, <<[memory |-> 4, cores |-> 4]>>}
\* Amounts by which the wall clock advances in one step: a second, and one
\* second less than the TTL, so that T+TTL-1, T+TTL and T+TTL+1 are reached.
TimeSteps == {1, TTL - 1}

VARIABLES
    \* AdvancedWasteClassifier
    initialized,        \* self.initialized
    lock_locked,        \* self.initialization_lock._locked
    lock_waiters,       \* self.initialization_lock._waiters (FIFO)
    \* one coroutine per caller
    op,                 \* "none" | "warm_up" | "detect": the operation called
    pc,                 \* position of the coroutine
    stage_out,          \* state of the awaited stage future
    result,             \* outcome returned to the caller
    proc_time,          \* processing_time handed to the background task
    request_device_info, \* request.device_info of the caller's detect request
    detection_config,   \* the detection_config detect_waste built, if any
    \* history of what the coroutines did
    wu_result,          \* outcome of the caller's warm_up call
    attempted,          \* the caller started an initialization attempt
    overlap,            \* no warm_up call had returned when this one was made
    waited_on_failed,   \* the caller was queued on an attempt that failed
    stage_log,          \* per caller, the stage start/end events in order
    \* app.state.performance_stats
    performance_stats,  \* [total_requests, average_processing_time]
    recorded,           \* history: processing times of the completed updates
    snapshot,           \* what the last health_check read
    \* lifespan and the thread pool
    lifespan_pc,        \* "startup" | "warming_up" | "serving" | "shutdown" |
                        \* "aborted", or "none" when no application runs
    pool_shutdown,      \* CPU_POOL.shutdown() was called
    \* periodic_cleanup
    janitor_pc,         \* "not_created" | "sleeping" | "cancelled" |
                        \* "stopped_on_error"
    cancel_requested,   \* cleanup_task.cancel() was called
    model_cache,        \* app.state.model_cache
    last_gc_time,       \* global last_gc_time
    last_sweep,         \* history: current_time of the latest sweep, -1 if none
    last_evicted,       \* history: the keys the latest sweep removed
    now,                \* time.time()
    ticks,              \* number of clock steps taken
    \* ModelOptimizer and its callers
    device_profiles,    \* self.device_profiles
    opt_request,        \* the inputs under study: descriptor, metrics, quality
    opt_results,        \* what the calls made with opt_request returned, in order
    opt_other,          \* the latest call made with other inputs, if any
    response,           \* what optimize_model answered to opt_request, if asked
    stronger,           \* a second descriptor with more memory and/or cores
    stronger_result,    \* what the call for the second descriptor returned
    perf_input,         \* a descriptor and the flags of a configuration
    predictions,        \* per resolution, what predict_performance returned
    \* validate_detections_sync and enrich_with_environmental_data
    raw_detections,     \* the predictor's detections
    validated_detections, \* the list validate_detections_sync returned
    enriched_detections,  \* the list enrich_with_environmental_data returned
    det_pc,             \* "raw" | "validated" | "enriched"
    det_returned,       \* history: per answered request, its threshold and the
                        \* detections of its response
    tip_input,          \* the arguments of a call of generate_tips, if drawn
    tips,               \* what the call returned, if it has returned
    \* decode_base64_image and preprocess_image_sync in one request
    image_data,         \* request.image_data
    img_config,         \* the configuration classify_image was given
    fault,              \* the step that raises, if executed
    image,              \* the image the stages have produced so far, if any
    img_error,          \* what classify_image raised, if anything
    img_response,       \* the HTTP response of detect_waste, if sent
    img_pc,             \* the stage about to run, "done" or "failed"
    img_ran,            \* the stages started, in order
    \* the locks
    memory_lock,        \* the module's memory_lock (threading.Lock) is held
    accesses            \* every access made so far to the cache or the flag

clsVars  == <<initialized, lock_locked, lock_waiters, op, pc, stage_out, result,
              proc_time, request_device_info, detection_config, wu_result, attempted,
              overlap, waited_on_failed, stage_log>>
statVars == <<performance_stats, recorded, snapshot>>
janVars  == <<lifespan_pc, pool_shutdown, janitor_pc, cancel_requested, model_cache,
              last_gc_time, last_sweep, last_evicted, now, ticks>>
optVars  == <<device_profiles, opt_request, opt_results, opt_other, response,
              stronger, stronger_result, perf_input, predictions>>
detVars  == <<raw_detections, validated_detections, enriched_detections, det_pc,
             det_returned, tip_input, tips>>
imgVars  == <<image_data, img_config, fault, image, img_error, img_response, img_pc,
             img_ran>>
lockVars == <<memory_lock, accesses>>
vars     == <<clsVars, statVars, janVars, optVars, detVars, imgVars, lockVars>>

\* ---------------------------------------------------------------- helpers
RECURSIVE GCD(_, _)
GCD(a, b) == IF b = 0 THEN a ELSE GCD(b, a % b)

\* A non-negative fraction <<numerator, denominator>> in lowest terms.
Normalize(f) ==
    LET g == GCD(f[1], f[2]) IN
    IF g = 0 THEN <<0, 1>> ELSE <<f[1] \div g, f[2] \div g>>

Range(s) == {s[i] : i \in 1..Len(s)}

\* An Optional value: None is the empty sequence, a present value v is <<v>>.
NoValue == <<>>

Some(v) == <<v>>

\* dict.get(key, default).
Get(dict, key, default) == IF key \in DOMAIN dict THEN dict[key] ELSE default

\* dict.get(key, dict.get(alias, default)), lines 599-601, 624-625, 663-664.
GetEither(dict, key, alias, default) == Get(dict, key, Get(dict, alias, default))

Min(a, b) == IF a <= b THEN a ELSE b

Max(a, b) == IF a >= b THEN a ELSE b

\* Python's truth value of an Optional[Dict]: None and {} are false.
Truthy(optional_dict) == optional_dict # NoValue /\ DOMAIN optional_dict[1] # {}

\* round(n / d) to the nearest integer, a tie going to the even neighbour.
RoundHalfEven(n, d) ==
    LET q == n \div d
        r == n % d
    IN  IF 2 * r < d THEN q
        ELSE IF 2 * r > d THEN q + 1
        ELSE IF q % 2 = 0 THEN q ELSE q + 1

\* round(n / d) to the nearest integer, a tie going up.
RoundHalfUp(n, d) == IF 2 * (n % d) >= d THEN (n \div d) + 1 ELSE n \div d

\* ---------------------------------------------------------- ModelOptimizer
Qualities == {"fast", "balanced", "accurate"}

\* A table whose low_end and high_end resolutions are exchanged.
DeviceProfilesSwapped ==
    [low_end   |-> [target_size |-> <<640, 640>>, use_gpu |-> FALSE,
                    quantization |-> "int8", optimize_memory |-> TRUE,
                    batch_size |-> 1, enhance_quality |-> FALSE, denoise |-> FALSE],
     mid_range |-> [target_size |-> <<480, 480>>, use_gpu |-> TRUE,
                    quantization |-> "int8", optimize_memory |-> TRUE,
                    batch_size |-> 1, enhance_quality |-> TRUE, denoise |-> TRUE],
     high_end  |-> [target_size |-> <<320, 320>>, use_gpu |-> TRUE,
                    quantization |-> "fp16", optimize_memory |-> FALSE,
                    batch_size |-> 1, enhance_quality |-> TRUE, denoise |-> TRUE]]

\* self.device_profiles as __init__ builds it, lines 520-548.
DeviceProfiles ==
    [low_end   |-> [target_size |-> <<320, 320>>, use_gpu |-> FALSE,
                    quantization |-> "int8", optimize_memory |-> TRUE,
                    batch_size |-> 1, enhance_quality |-> FALSE, denoise |-> FALSE],
     mid_range |-> [target_size |-> <<480, 480>>, use_gpu |-> TRUE,
                    quantization |-> "int8", optimize_memory |-> TRUE,
                    batch_size |-> 1, enhance_quality |-> TRUE, denoise |-> TRUE],
     high_end  |-> [target_size |-> <<640, 640>>, use_gpu |-> TRUE,
                    quantization |-> "fp16", optimize_memory |-> FALSE,
                    batch_size |-> 1, enhance_quality |-> TRUE, denoise |-> TRUE]]

\* Capability values that are no numbers.
NonNumbers == {"8GB", "integrated"}

\* Whether a value of a descriptor is a number: its printed form is not that
\* of one of the texts.  Comparing a text with a number (`<=`, `>=`, `<`)
\* and dividing it by one raise TypeError.
IsNumber(value) == ToString(value) \notin {ToString(text) : text \in NonNumbers}

\* classify_device with `and` in place of the `or` of line 604.
classify_device_both(device_info) ==
    IF DOMAIN device_info = {} THEN "mid_range"
    ELSE LET memory == GetEither(device_info, "memory", "deviceMemory", 4)
             cores  == GetEither(device_info, "cores", "hardwareConcurrency", 4)
             gpu    == GetEither(device_info, "gpu", "gpuTier", 0)
         IN  IF memory <= 2 /\ cores <= 2 THEN "low_end"
             ELSE IF memory >= 8 /\ cores >= 8 /\ gpu >= 2 THEN "high_end"
             ELSE "mid_range"

\* A comparison of lines 604-606 raises: `or` and `and` evaluate their
\* operands from the left and stop as soon as the result is known, so a value
\* is compared only when the values before it left the result open.
ComparisonRaises(device_info) ==
    LET memory == GetEither(device_info, "memory", "deviceMemory", 4)
        cores  == GetEither(device_info, "cores", "hardwareConcurrency", 4)
        gpu    == GetEither(device_info, "gpu", "gpuTier", 0)
    IN  \/ ~IsNumber(memory)
        \/ memory > 2 /\ ~IsNumber(cores)
        \/ memory >= 8 /\ cores >= 8 /\ ~IsNumber(gpu)

\* classify_device, lines 591-613.  An exception raised by a comparison is
\* caught at line 611 and the device is taken as mid_range.
classify_device(device_info) ==
    IF DOMAIN device_info = {} THEN "mid_range"
    ELSE IF ComparisonRaises(device_info) THEN "mid_range"
    ELSE LET memory == GetEither(device_info, "memory", "deviceMemory", 4)
             cores  == GetEither(device_info, "cores", "hardwareConcurrency", 4)
             gpu    == GetEither(device_info, "gpu", "gpuTier", 0)
         IN  IF memory <= 2 \/ cores <= 2 THEN "low_end"
             ELSE IF memory >= 8 /\ cores >= 8 /\ gpu >= 2 THEN "high_end"
             ELSE "mid_range"

\* The `fast` resolution taken as a floor instead of a ceiling.
FastSizeGrown(target_size) == <<Max(320, target_size[1]), Max(320, target_size[2])>>

\* Line 561.
FastSize(target_size) == <<Min(320, target_size[1]), Min(320, target_size[2])>>

\* The `accurate` resolution taken as a ceiling instead of a floor.
AccurateSizeShrunk(target_size) == <<Min(640, target_size[1]), Min(640, target_size[2])>>

\* Line 566.
AccurateSize(target_size) == <<Max(640, target_size[1]), Max(640, target_size[2])>>

\* Every quality but `accurate` adjusted as `fast` is.
AdjustBalancedAsFast(config, quality) ==
    IF quality = "accurate"
    THEN [config EXCEPT !.target_size = AccurateSize(@), !.enhance_quality = TRUE,
                        !.denoise = TRUE]
    ELSE [config EXCEPT !.target_size = FastSize(@), !.enhance_quality = FALSE,
                        !.denoise = FALSE, !.optimize_memory = TRUE]

\* Lines 560-568: the quality preference adjusts the copied configuration.
AdjustForQuality(config, quality) ==
    IF quality = "fast"
    THEN [config EXCEPT !.target_size = FastSize(@), !.enhance_quality = FALSE,
                        !.denoise = FALSE, !.optimize_memory = TRUE]
    ELSE IF quality = "accurate"
    THEN [config EXCEPT !.target_size = AccurateSize(@), !.enhance_quality = TRUE,
                        !.denoise = TRUE]
    ELSE config

\* The prediction with the memory estimate falling as the pixel count
\* grows and the accuracy left without its ceiling.
predict_performance_reversed(config, device_info) ==
    LET pixels == config.target_size[1] * config.target_size[2]
        memory == GetEither(device_info, "memory", "deviceMemory", 4)
        cores  == GetEither(device_info, "cores", "hardwareConcurrency", 4)
        f      == Max(64, Min(320, 5 * cores * memory))
        usage  == IF config.optimize_memory THEN 7 ELSE 10
        bonus  == IF config.enhance_quality /\ config.denoise THEN 5 * 409600 ELSE 0
        acc    == 85 * 409600 + 10 * pixels + bonus
    IN  [estimated_inference_time |-> RoundHalfEven(25 * pixels, 32 * f),
         estimated_memory_usage   |-> RoundHalfEven((2 * 409600 - pixels) * usage, 2048),
         estimated_accuracy       |-> RoundHalfUp(acc, 409600)]

\* predict_performance, lines 615-657, on exact fractions.  With p = pixels,
\* size_factor = p / 409600 and max(0.2, min(1.0, cores/8 * memory/8)) =
\* f / 320 where f = max(64, min(320, 5 * cores * memory)).  The results are
\* kept in the unit of their last rounded digit: the inference time in tenths
\* of a millisecond (10 * 1000 * 0.1 * p / 409600 * 320 / f = 25 p / (32 f)),
\* the memory in tenths of a megabyte (10 * 200 * p / 409600 * usage / 10 =
\* p * usage / 2048), the accuracy in hundredths.  round() goes to the nearest, a tie to the even digit; the
\* accuracy's two ties, 0.875 and the binary sum 0.85 + 0.025 + 0.05 which
\* lies just above 0.925, both go up.  target_fps is not part of the model.
predict_performance(config, device_info) ==
    LET pixels == config.target_size[1] * config.target_size[2]
        memory == GetEither(device_info, "memory", "deviceMemory", 4)
        cores  == GetEither(device_info, "cores", "hardwareConcurrency", 4)
        f      == Max(64, Min(320, 5 * cores * memory))
        usage  == IF config.optimize_memory THEN 7 ELSE 10
        bonus  == IF config.enhance_quality /\ config.denoise THEN 5 * 409600 ELSE 0
        acc    == 85 * 409600 + 10 * pixels + bonus
    IN  [estimated_inference_time |-> RoundHalfEven(25 * pixels, 32 * f),
         estimated_memory_usage   |-> RoundHalfEven(pixels * usage, 2048),
         estimated_accuracy       |-> IF acc > 98 * 409600 THEN 98
                                      ELSE RoundHalfUp(acc, 409600)]

\* generate_recommendations, lines 659-682.
generate_recommendations(config, device_info) ==
    LET memory    == GetEither(device_info, "memory", "deviceMemory", 4)
        is_mobile == GetEither(device_info, "mobile", "isMobile", FALSE)
    IN  (IF memory < 4
         THEN <<"Close other applications to free up memory",
                "Consider using the 'fast' quality setting for better performance">>
         ELSE <<>>)
        \o (IF is_mobile
            THEN <<"Keep device cool for optimal AI performance">>
                 \o (IF config.use_gpu
                     THEN <<"Using GPU acceleration may drain battery faster">>
                     ELSE <<>>)
            ELSE <<>>)
        \o (IF config.target_size[1] <= 320
            THEN <<"Using reduced resolution for faster performance">>
            ELSE IF config.target_size[1] >= 640
            THEN <<"Using high resolution for better accuracy">>
            ELSE <<>>)

\* predict_performance raises at line 630, `(cores / 8) * (memory / 8)`, when
\* cores or memory is no number; nothing else in the try block of
\* optimize_for_device raises after classify_device has returned.
TryRaises(device_info) ==
    \/ ~IsNumber(GetEither(device_info, "cores", "hardwareConcurrency", 4))
    \/ ~IsNumber(GetEither(device_info, "memory", "deviceMemory", 4))

\* The dict objects a call works with are named: the entries of the table by
\* their tier names, and the dict of the call's own "config".

\* `self.device_profiles.get(device_class, self.device_profiles["mid_range"])`,
\* line 557: the entry of the table, the object itself.
TableEntry(profiles, device_class) ==
    IF device_class \in DOMAIN profiles THEN device_class ELSE "mid_range"

\* The entry used without a copy: `config` is the table's own dict.
SameObject(objects, entry) == [config |-> entry, objects |-> objects]

\* `.copy()`, line 557: a new dict with the keys and values of the entry;
\* `config` refers to the new dict.
Copied(objects, entry) ==
    [config |-> "config", objects |-> ("config" :> objects[entry]) @@ objects]

\* Lines 560-568: the assignments `config[key] = value` write into the dict
\* that `config` refers to.
OverridesWritten(objects, config, quality) ==
    [objects EXCEPT ![config] = AdjustForQuality(@, quality)]

\* The objects when line 568 has run, and the one `config` refers to.
AfterAdjustment(profiles, device_info, quality) ==
    LET copy == Copied(profiles, TableEntry(profiles, classify_device(device_info)))
    IN  [config  |-> copy.config,
         objects |-> OverridesWritten(copy.objects, copy.config, quality)]

\* The object the returned optimized_config is: the call's own dict, or, on
\* the except path (line 586), the table's mid_range entry itself.
ReturnedObject(profiles, device_info, quality) ==
    IF TryRaises(device_info) THEN "mid_range"
    ELSE AfterAdjustment(profiles, device_info, quality).config

\* What optimize_for_device returns, lines 552-589, read from the table
\* profiles.  performance_metrics is accepted and not read.  When the try
\* block raises the answer is the default of lines 585-589.
optimize_for_device(profiles, device_info, performance_metrics, quality) ==
    LET after  == AfterAdjustment(profiles, device_info, quality)
        config == after.objects[ReturnedObject(profiles, device_info, quality)]
    IN  IF TryRaises(device_info)
        THEN [optimized_config     |-> config,
              expected_performance |-> <<>>,
              recommendations      |->
                  <<"Using default settings due to optimization error">>]
        ELSE [optimized_config     |-> config,
              expected_performance |-> predict_performance(config, device_info),
              recommendations      |-> generate_recommendations(config, device_info)]

\* The table after a call: its entries as the call's writes left them.
ProfilesAfterCall(profiles, device_info, quality) ==
    LET after == AfterAdjustment(profiles, device_info, quality)
    IN  [device_class \in DOMAIN profiles |-> after.objects[device_class]]

\* A call of an `async def` function that is not awaited evaluates to a
\* coroutine object: the function's body has not run.
CoroutineObject == [coroutine |-> "optimize_for_device"]

\* value.get(...) on what a call evaluated to: a dict answers, a coroutine
\* object has no attribute `get` (AttributeError).
HasGet(value) == "coroutine" \notin DOMAIN value

\* The keys of detection_config that detect_waste takes from device_config,
\* lines 730-732; RequestConfig adds the two it copies from the request.
DetectionConfig(device_config) ==
    [target_size     |-> Get(device_config, "target_size", <<640, 640>>),
     enhance_quality |-> Get(device_config, "enhance_quality", TRUE),
     denoise         |-> Get(device_config, "denoise", TRUE)]

\* ------------------------------------------------------------- the locks
\* The two locks of the module: memory_lock (line 41), a threading.Lock, and
\* the classifier's initialization_lock (line 206), an asyncio.Lock.
Locks == {"memory_lock", "initialization_lock"}

\* One access: who made it, to the cache or to the flag, reading or writing,
\* and the locks the accessing code held.
Access(by, resource, mode, held) ==
    [by |-> by, resource |-> resource, mode |-> mode, locks |-> held]

\* `if self.initialized` at line 254, and `if not self.initialized` at line
\* 277: no lock is held.
FlagReadUnlocked(by) == Access(by, "initialized", "read", {})

\* `if self.initialized` at line 258, inside `async with`.
FlagReadLocked == Access("warm_up", "initialized", "read", {"initialization_lock"})

\* `self.initialized = True` at line 266, inside `async with`.
FlagWritten == Access("warm_up", "initialized", "write", {"initialization_lock"})

\* The reads a caller makes up to its first suspension point.
ReadsOnCall(kind, ready, free) ==
    (IF kind = "detect" THEN {FlagReadUnlocked("classify_image")} ELSE {})
    \cup (IF kind = "warm_up" \/ ~ready THEN {FlagReadUnlocked("warm_up")} ELSE {})
    \cup (IF ~ready /\ free THEN {FlagReadLocked} ELSE {})

\* The janitor's accesses inside `with memory_lock`, lines 153-161: the scan
\* reads the cache, `del` writes it when a handle has expired.
SweepAccesses(fail, evicted) ==
    {Access("janitor", "model_cache", "read", {"memory_lock"})}
    \cup (IF fail # "scan" /\ evicted # {}
          THEN {Access("janitor", "model_cache", "write", {"memory_lock"})} ELSE {})

\* No application runs: the classifier is the module's own instance (line
\* 514), which no lifespan warms up, called directly by coroutines.
DirectCalls == lifespan_pc = "none"

\* lifespan has reached its yield (line 70): app.state is set up and request
\* handlers run.  A handler called after the shutdown code finds the same
\* objects.
Started == lifespan_pc \in {"serving", "shutdown"}

\* A `with` block that leaves the lock held.
LockKept == TRUE

\* `with memory_lock` releases the lock when the block is left, by its end
\* or by an exception.
LockAfterWith == FALSE

\* ------------------------------------------------- classify pipeline order
\* classify_image awaits its stages in this order (lines 286-308).
PipelineOrder == <<"decode", "preprocess", "infer", "validate", "enrich">>

\* The stages whose result the coroutine awaits at a suspension point: the
\* three executor jobs and the predictor's sleep.  enrich has no suspension.
AwaitedStages == {"decode", "preprocess", "infer", "validate"}

\* The stages submitted to CPU_POOL with loop.run_in_executor (lines 286, 292
\* and 302); the predictor is awaited on the event loop (line 299).
ExecutorStages == {"decode", "preprocess", "validate"}

StageIndex(s) == CHOOSE i \in 1..Len(PipelineOrder) : PipelineOrder[i] = s

\* The stage classify_image starts after stage s has returned.
NextStage(s) == PipelineOrder[StageIndex(s) + 1]

\* What the future of a stage can complete with.  decode_base64_image raises
\* ValueError on a bad payload and the predictor may raise; preprocess catches
\* its own exceptions and validate has nothing that raises.
StageOutcomes(s) == IF s \in {"decode", "infer"} THEN {"ok", "error"} ELSE {"ok"}

\* A coroutine that does not await the stage it submitted.
NotAwaited(t) == TRUE

\* `await`: the coroutine goes on only once the awaited future has completed.
Awaited(t) == stage_out[t] # "pending"

\* ThreadPoolExecutor.submit raises RuntimeError("cannot schedule new futures
\* after shutdown") once shutdown() has been called.
SubmitRaises(s) == s \in ExecutorStages /\ pool_shutdown

\* A failed request that schedules the statistics update all the same.
FailedAndCounted == "respond"

\* Where a request stands after an exception: `except Exception` (line 769)
\* raises, and line 752, which schedules the statistics update, was not
\* reached.
FailedRequest == "done"

\* classify_image goes on to stage s for task t: the stage is started and
\* awaited, unless submitting it to the pool raises, which `except Exception`
\* turns into HTTP 500 (lines 315-317, 769-774) with the stage not run.
StartStage(t, s) ==
    IF SubmitRaises(s)
    THEN /\ result' = [result EXCEPT ![t] = "error"]
         /\ pc' = [pc EXCEPT ![t] = FailedRequest]
         /\ UNCHANGED <<stage_out, stage_log>>
    ELSE /\ pc' = [pc EXCEPT ![t] = s]
         /\ stage_out' = [stage_out EXCEPT ![t] = "pending"]
         /\ stage_log' = [stage_log EXCEPT ![t] = Append(@, <<s, "start">>)]
         /\ UNCHANGED result

\* --------------------------------------------------------------- warm_up
\* warm_up without its two checks of the flag.
NeverInitialized == FALSE

\* A classifier taken to be ready whatever the flag says.
AssumedInitialized == TRUE

\* `if self.initialized: return`, lines 254 and 258.
AlreadyInitialized == initialized

\* warm_up without the lock.
AlwaysFree == TRUE

\* asyncio.Lock.acquire takes the lock at once only when it is not held and
\* nobody is queued before the caller; otherwise the caller queues.
LockFree == ~lock_locked /\ lock_waiters = <<>>

\* warm_up returned normally to task t running operation kind: a warm_up
\* caller is done, classify_image goes on to submit the decode stage (line
\* 286).
WarmUpReturned(t, kind) ==
    /\ wu_result' = [wu_result EXCEPT ![t] = "ok"]
    /\ IF kind = "detect"
       THEN StartStage(t, "decode")
       ELSE /\ pc' = [pc EXCEPT ![t] = "done"]
            /\ result' = [result EXCEPT ![t] = "ok"]
            /\ UNCHANGED <<stage_out, stage_log>>

\* The caller holds the lock, found initialized false and starts the
\* initialization: it is now suspended in `await asyncio.sleep(1.0)`.
BeginInitialization(t) ==
    /\ lock_locked' = TRUE
    /\ attempted' = [attempted EXCEPT ![t] = TRUE]
    /\ pc' = [pc EXCEPT ![t] = "initializing"]
    /\ UNCHANGED <<initialized, wu_result, result, stage_out, stage_log>>

\* A caller calls warm_up() directly, or detect_waste -> classify_image, and
\* runs to its first suspension point.  A detect request whose device_info is
\* None or empty skips the optimizer (line 719) and builds detection_config
\* from an empty device_config.  Under an application the only warm_up call
\* besides classify_image's is lifespan's (line 64), and requests are handled
\* once startup has completed; the module's own classifier (line 514) is
\* called by whoever imports it.
Call(t, kind, dev) ==
    /\ pc[t] = "idle"
    /\ IF kind = "warm_up" THEN DirectCalls ELSE DirectCalls \/ Started
    /\ kind = "warm_up" => dev = NoValue
    /\ ~Truthy(dev)
    /\ op' = [op EXCEPT ![t] = kind]
    /\ request_device_info' = [request_device_info EXCEPT ![t] = dev]
    /\ detection_config' =
           IF kind = "detect"
           THEN [detection_config EXCEPT ![t] = Some(DetectionConfig(<<>>))]
           ELSE detection_config
    /\ IF AlreadyInitialized
       THEN \* warm_up returns at line 255; classify_image skips it (line 277)
            /\ IF kind = "detect"
               THEN /\ StartStage(t, "decode")
                    /\ UNCHANGED <<wu_result, overlap>>
               ELSE /\ overlap' = [overlap EXCEPT ![t] =
                                       \A u \in Tasks : wu_result[u] = "none"]
                    /\ WarmUpReturned(t, kind)
            /\ UNCHANGED <<initialized, lock_locked, lock_waiters, attempted>>
       ELSE /\ overlap' = [overlap EXCEPT ![t] = \A u \in Tasks : wu_result[u] = "none"]
            /\ IF LockFree
               THEN /\ BeginInitialization(t)
                    /\ UNCHANGED lock_waiters
               ELSE /\ lock_waiters' = Append(lock_waiters, t)
                    /\ pc' = [pc EXCEPT ![t] = "lock_wait"]
                    /\ UNCHANGED <<initialized, lock_locked, attempted, wu_result,
                                   result, stage_out, stage_log>>
    /\ UNCHANGED <<proc_time, waited_on_failed>>
    /\ accesses' = accesses \cup ReadsOnCall(kind, AlreadyInitialized, LockFree)
    /\ UNCHANGED <<statVars, janVars, optVars, detVars, imgVars, memory_lock>>

\* detect_waste for a request that carries a device descriptor.  Line 720
\* calls optimize_for_device, an `async def`, without await: the value is a
\* coroutine object, `.get("optimized_config", {})` raises AttributeError,
\* `except Exception` (line 769) turns it into HTTP 500.  No configuration is
\* built, classify_image is not called and no statistics update is scheduled.
DetectWithDevice(t, dev) ==
    /\ pc[t] = "idle"
    /\ Started
    /\ Truthy(dev)
    /\ op' = [op EXCEPT ![t] = "detect"]
    /\ request_device_info' = [request_device_info EXCEPT ![t] = dev]
    /\ ~HasGet(CoroutineObject)
    /\ result' = [result EXCEPT ![t] = "error"]
    /\ pc' = [pc EXCEPT ![t] = "done"]
    /\ UNCHANGED <<initialized, lock_locked, lock_waiters, stage_out, proc_time,
                   detection_config, wu_result, attempted, overlap, waited_on_failed,
                   stage_log>>
    /\ UNCHANGED <<statVars, janVars, optVars, detVars, imgVars, lockVars>>

\* The first queued caller gets the released lock and makes the second check
\* (line 258): it returns if another caller initialized meanwhile, else it
\* starts an initialization of its own.
WaiterAcquire(t) ==
    /\ pc[t] = "lock_wait"
    /\ ~lock_locked
    /\ lock_waiters # <<>>
    /\ Head(lock_waiters) = t
    /\ lock_waiters' = Tail(lock_waiters)
    /\ IF AlreadyInitialized
       THEN /\ WarmUpReturned(t, op[t])
            /\ UNCHANGED <<initialized, lock_locked, attempted>>
       ELSE BeginInitialization(t)
    /\ UNCHANGED <<op, proc_time, request_device_info, detection_config, overlap,
                   waited_on_failed>>
    /\ accesses' = accesses \cup {FlagReadLocked}
    /\ UNCHANGED <<statVars, janVars, optVars, detVars, imgVars, memory_lock>>

\* The initialization of the lock holder ends: on success the flag is set
\* (line 266), on an exception it is logged and re-raised (lines 268-270) and,
\* for a detect request, surfaces as HTTP 500.  Either way `async with`
\* releases the lock, and the queued callers stay queued.
InitDone(t, ok) ==
    /\ pc[t] = "initializing"
    /\ lock_locked' = FALSE
    /\ IF ok
       THEN /\ initialized' = TRUE
            /\ WarmUpReturned(t, op[t])
            /\ UNCHANGED waited_on_failed
       ELSE /\ wu_result' = [wu_result EXCEPT ![t] = "error"]
            /\ result' = [result EXCEPT ![t] = "error"]
            /\ pc' = [pc EXCEPT ![t] = "done"]
            /\ waited_on_failed' =
                   [u \in Tasks |-> waited_on_failed[u] \/ u \in Range(lock_waiters)]
            /\ UNCHANGED <<initialized, stage_out, stage_log>>
    /\ UNCHANGED <<lock_waiters, op, proc_time, request_device_info, detection_config,
                   attempted, overlap>>
    /\ accesses' = IF ok THEN accesses \cup {FlagWritten} ELSE accesses
    /\ UNCHANGED <<statVars, janVars, optVars, detVars, imgVars, memory_lock>>

\* ---------------------------------------------------------- classify_image
\* The worker thread (or the predictor) running the awaited stage finishes.
StageFinish(t, out) ==
    /\ pc[t] \in AwaitedStages
    /\ stage_out[t] = "pending"
    /\ out \in StageOutcomes(pc[t])
    /\ stage_out' = [stage_out EXCEPT ![t] = out]
    /\ stage_log' = [stage_log EXCEPT ![t] =
                        IF out = "ok" THEN Append(@, <<pc[t], "end">>) ELSE @]
    /\ UNCHANGED <<initialized, lock_locked, lock_waiters, op, pc, result, proc_time,
                   request_device_info, detection_config, wu_result, attempted,
                   overlap, waited_on_failed>>
    /\ UNCHANGED <<statVars, janVars, optVars, detVars, imgVars, lockVars>>

\* The coroutine resumes after its await.  An exception becomes HTTP 500
\* (lines 315-317, 769-774).  Otherwise the next stage is started; after
\* validate, enrich runs without suspending, classify_image returns and
\* detect_waste measures processing_time = d, schedules the statistics update
\* as a background task and returns the response (lines 741-767).
Resume(t, d) ==
    /\ pc[t] \in AwaitedStages
    /\ Awaited(t)
    /\ IF stage_out[t] = "error"
       THEN /\ result' = [result EXCEPT ![t] = "error"]
            /\ pc' = [pc EXCEPT ![t] = FailedRequest]
            /\ UNCHANGED <<stage_out, stage_log, proc_time>>
       ELSE IF NextStage(pc[t]) \in AwaitedStages
       THEN /\ StartStage(t, NextStage(pc[t]))
            /\ UNCHANGED proc_time
       ELSE /\ stage_log' = [stage_log EXCEPT ![t] =
                   @ \o << <<NextStage(pc[t]), "start">>, <<NextStage(pc[t]), "end">> >>]
            /\ proc_time' = [proc_time EXCEPT ![t] = d]
            /\ result' = [result EXCEPT ![t] = "ok"]
            /\ pc' = [pc EXCEPT ![t] = "respond"]
            /\ UNCHANGED stage_out
    /\ UNCHANGED <<initialized, lock_locked, lock_waiters, op, request_device_info,
                   detection_config, wu_result, attempted, overlap, waited_on_failed>>
    /\ UNCHANGED <<statVars, janVars, optVars, detVars, imgVars, lockVars>>

\* ------------------------------------------------ update_performance_stats
\* The request counted twice.
CountTwice(n) == n + 2

\* stats["total_requests"] += 1, line 946.
IncrementRequests(n) == n + 1

\* The old average weighted by n instead of n - 1.
NewAverageOverweighted(avg, n, t) == Normalize(<<avg[1] * n + t * avg[2], avg[2] * n>>)

\* Line 949: (average * (n - 1) + processing_time) / n with n the count after
\* the increment, computed on exact fractions.
NewAverage(avg, n, t) == Normalize(<<avg[1] * (n - 1) + t * avg[2], avg[2] * n>>)

\* The update cut after line 946: the count incremented, the average stale.
UpdatedStatsTorn(stats, t) ==
    [total_requests |-> stats.total_requests + 1,
     average_processing_time |-> stats.average_processing_time]

\* The whole update: the function has no suspension point.
UpdatedStats(stats, t) ==
    LET n == IncrementRequests(stats.total_requests) IN
    [total_requests |-> n,
     average_processing_time |-> NewAverage(stats.average_processing_time, n, t)]

\* The background task of a successful detect request runs after its response.
update_performance_stats(t) ==
    /\ pc[t] = "respond"
    /\ Started
    /\ performance_stats' = UpdatedStats(performance_stats, proc_time[t])
    /\ recorded' = Append(recorded, proc_time[t])
    /\ pc' = [pc EXCEPT ![t] = "done"]
    /\ UNCHANGED <<initialized, lock_locked, lock_waiters, op, stage_out, result,
                   proc_time, request_device_info, detection_config, wu_result,
                   attempted, overlap, waited_on_failed, stage_log>>
    /\ UNCHANGED <<snapshot, janVars, optVars, detVars, imgVars, lockVars>>

\* health_check returns the statistics and the cache size as they are now;
\* len(app.state.model_cache), line 705, is read with no lock held.
health_check ==
    /\ Started
    /\ snapshot' = <<performance_stats.total_requests,
                     performance_stats.average_processing_time,
                     Cardinality(DOMAIN model_cache)>>
    /\ accesses' = accesses \cup {Access("health_check", "model_cache", "read", {})}
    /\ UNCHANGED <<clsVars, performance_stats, recorded, janVars, optVars, detVars,
                   imgVars, memory_lock>>

\* ---------------------------------------------------------------- lifespan
\* lifespan's startup up to its first suspension point: the assignments of
\* lines 52-61 and the call of warm_up at line 64, which finds the flag false
\* and the lock free and sleeps at line 265 holding the lock.
Startup ==
    /\ lifespan_pc = "startup"
    /\ LockFree /\ ~AlreadyInitialized
    /\ lock_locked' = TRUE
    /\ lifespan_pc' = "warming_up"
    /\ accesses' = accesses \cup {FlagReadUnlocked("warm_up"), FlagReadLocked}
    /\ UNCHANGED <<initialized, lock_waiters, op, pc, stage_out, result, proc_time,
                   request_device_info, detection_config, wu_result, attempted,
                   overlap, waited_on_failed, stage_log>>
    /\ UNCHANGED <<pool_shutdown, janitor_pc, cancel_requested, model_cache,
                   last_gc_time, last_sweep, last_evicted, now, ticks>>
    /\ UNCHANGED <<statVars, optVars, detVars, imgVars, memory_lock>>

\* The startup warm-up ends.  On success the flag is set (line 266), the lock
\* is released, the cleanup task is created (line 67) and lifespan yields
\* (line 70).  On an exception warm_up re-raises (line 270) out of lifespan:
\* startup fails, no cleanup task is created and no request is served.
StartupDone(ok) ==
    /\ lifespan_pc = "warming_up"
    /\ lock_locked' = FALSE
    /\ initialized' = ok
    /\ lifespan_pc' = IF ok THEN "serving" ELSE "aborted"
    /\ janitor_pc' = IF ok THEN "sleeping" ELSE janitor_pc
    /\ accesses' = IF ok THEN accesses \cup {FlagWritten} ELSE accesses
    /\ UNCHANGED <<lock_waiters, op, pc, stage_out, result, proc_time,
                   request_device_info, detection_config, wu_result, attempted,
                   overlap, waited_on_failed, stage_log>>
    /\ UNCHANGED <<pool_shutdown, cancel_requested, model_cache, last_gc_time,
                   last_sweep, last_evicted, now, ticks>>
    /\ UNCHANGED <<statVars, optVars, detVars, imgVars, memory_lock>>

\* lifespan's shutdown, lines 72-84: app.state.cleanup_task.cancel(), then
\* the loop over app.state.model_cache.items(), with no lock held, then the
\* shutdown of the pool, CPU_POOL.shutdown(wait=False) at line 82: the pool
\* takes no new job, the jobs already submitted still run.  There is no
\* suspension point and the task is not awaited.
Cancel ==
    /\ lifespan_pc = "serving"
    /\ lifespan_pc' = "shutdown"
    /\ cancel_requested' = TRUE
    /\ pool_shutdown' = TRUE
    /\ accesses' = accesses \cup {Access("shutdown", "model_cache", "read", {})}
    /\ UNCHANGED <<janitor_pc, model_cache, last_gc_time, last_sweep, last_evicted,
                   now, ticks>>
    /\ UNCHANGED <<clsVars, statVars, optVars, detVars, imgVars, memory_lock>>

\* ------------------------------------------------------- periodic_cleanup
\* model_data.get("last_used", 0), line 156.
LastUsed(model_data) ==
    IF "last_used" \in DOMAIN model_data THEN model_data["last_used"] ELSE 0

\* The subtraction with its operands swapped.
ExpiredSwapped(current_time, model_data) == LastUsed(model_data) - current_time > TTL

\* `current_time - model_data.get("last_used", 0) > 600`, line 156.
Expired(current_time, model_data) == current_time - LastUsed(model_data) > TTL

\* The cache after the two loops of lines 155-161.
Evicted(cache, current_time) ==
    LET keep == {k \in DOMAIN cache : ~Expired(current_time, cache[k])}
    IN  [k \in keep |-> cache[k]]

\* Lines 165-168: garbage collection when the interval has passed.
GcTime(current_time, last) ==
    IF current_time - last > GC_INTERVAL THEN current_time ELSE last

\* A task that never receives its cancellation.
CancellationIgnored == FALSE

\* Task.cancel() arranges for CancelledError to be thrown into the task at
\* its next resumption: the pending sleep does not return normally.
CancellationPending == cancel_requested

\* One iteration of the loop after the sleep: it has no suspension point.
\* fail = "scan": an exception while the cache entries are examined (line 156,
\* an entry that is no mapping); fail = "report": an exception from
\* get_memory_usage_mb (line 171), after the eviction.  The try statement is
\* outside the while loop, so `except Exception` (line 176) ends the task.
\* The sleep is timed by the event loop's clock, not by time.time(), so a
\* sweep may find any wall-clock time.
Sweep(fail) ==
    /\ janitor_pc = "sleeping"
    /\ ~CancellationPending
    /\ ~memory_lock
    /\ IF fail = "scan"
       THEN UNCHANGED <<model_cache, last_gc_time, last_sweep, last_evicted>>
       ELSE /\ model_cache' = Evicted(model_cache, now)
            /\ last_gc_time' = GcTime(now, last_gc_time)
            /\ last_sweep' = now
            /\ last_evicted' = DOMAIN model_cache \ DOMAIN Evicted(model_cache, now)
    /\ memory_lock' = LockAfterWith
    /\ accesses' = accesses \cup
           SweepAccesses(fail, DOMAIN model_cache \ DOMAIN Evicted(model_cache, now))
    /\ janitor_pc' = IF fail = "none" THEN "sleeping" ELSE "stopped_on_error"
    /\ UNCHANGED <<lifespan_pc, pool_shutdown, cancel_requested, now, ticks>>
    /\ UNCHANGED <<clsVars, statVars, optVars, detVars, imgVars>>

\* CancelledError is raised in the task at its sleep and caught at line 174:
\* the coroutine returns and the task is done.
Cancelled ==
    /\ janitor_pc = "sleeping"
    /\ CancellationPending
    /\ janitor_pc' = "cancelled"
    /\ UNCHANGED <<lifespan_pc, pool_shutdown, cancel_requested, model_cache, last_gc_time, last_sweep,
                   last_evicted, now, ticks>>
    /\ UNCHANGED <<clsVars, statVars, optVars, detVars, imgVars, lockVars>>

\* A model is loaded or used: its handle is stored with last_used refreshed.
UseModel(k) ==
    /\ Started
    /\ model_cache' = [x \in DOMAIN model_cache \cup {k} |->
                          IF x = k THEN [last_used |-> now] ELSE model_cache[x]]
    /\ UNCHANGED <<lifespan_pc, pool_shutdown, janitor_pc, cancel_requested,
                   last_gc_time, last_sweep, last_evicted, now, ticks>>
    /\ UNCHANGED <<clsVars, statVars, optVars, detVars, imgVars, lockVars>>

\* time.time() advances.
Tick(d) ==
    /\ ticks < MaxTicks
    /\ now' = now + d
    /\ ticks' = ticks + 1
    /\ UNCHANGED <<lifespan_pc, pool_shutdown, janitor_pc, cancel_requested,
                   model_cache, last_gc_time, last_sweep, last_evicted>>
    /\ UNCHANGED <<clsVars, statVars, optVars, detVars, imgVars, lockVars>>

\* --------------------------------------------------------- optimizer inputs
Capacities == 1..MaxCapacity
GpuTiers   == 0..MaxGpu

\* A key that is absent, or present with one of the values.
Optional(key, values) == {<<>>} \cup {key :> v : v \in values}

\* Descriptors under the keys classify_device reads first.
PrimaryDevices ==
    {m @@ c @@ g : m \in Optional("memory", Capacities),
                   c \in Optional("cores", Capacities),
                   g \in Optional("gpu", GpuTiers)}

\* Descriptors under the keys it falls back to (the browser's names).
AliasDevices ==
    {m @@ c @@ g : m \in Optional("deviceMemory", Capacities),
                   c \in Optional("hardwareConcurrency", Capacities),
                   g \in Optional("gpuTier", GpuTiers)}

\* Values on both sides of the thresholds of lines 604 and 606.
CapacityMarks == {2, 8}

\* Descriptors that carry a capability under both of its keys.
MixedDevices ==
    {[memory |-> m, deviceMemory |-> a, cores |-> c, hardwareConcurrency |-> b,
      gpu |-> g, gpuTier |-> h] :
        m \in CapacityMarks, a \in CapacityMarks, c \in CapacityMarks,
        b \in CapacityMarks, g \in {0, 2}, h \in {0, 2}}

\* A descriptor whose memory is a text: classify_device catches the
\* TypeError, predict_performance raises it.
TextMemoryDevices == {[memory |-> "8GB", cores |-> 8, gpu |-> 2]}

\* A descriptor whose accelerator is a text: only classify_device reads it.
TextGpuDevices == {[memory |-> 8, cores |-> 8, gpu |-> "integrated"]}

\* One descriptor of each tier.
TierDevices ==
    {[memory |-> 2, cores |-> 4], [memory |-> 4, cores |-> 4],
     [memory |-> 8, cores |-> 8, gpu |-> 2]}

\* Descriptors with the mobile flag under either key.
MobileDevices ==
    {d @@ f : d \in TierDevices,
              f \in {"mobile" :> TRUE, "mobile" :> FALSE, "isMobile" :> TRUE,
                     ("mobile" :> FALSE) @@ ("isMobile" :> TRUE)}}

Devices == PrimaryDevices \cup AliasDevices \cup MixedDevices \cup MobileDevices

\* performance_metrics: empty, or what detect_waste passes at line 722.
Metrics == {<<>>, [preferred_quality |-> "balanced"]}

\* The inputs of one optimizer call.
Requests(devices) ==
    [device_info : devices, performance_metrics : Metrics, quality : Qualities]

\* Descriptors with memory, cores and accelerator tier all given.
FullDevices == [memory : Capacities, cores : Capacities, gpu : GpuTiers]

\* b differs from a only in having more memory and/or more cores.
MoreCapable(a, b) ==
    /\ a.gpu = b.gpu
    /\ a.memory <= b.memory
    /\ a.cores <= b.cores
    /\ a # b

MonotonePairs == {p \in FullDevices \X FullDevices : MoreCapable(p[1], p[2])}

\* ----------------------------------------------------- ModelOptimizer calls
\* One awaited call of optimize_for_device on the table as it is now: what
\* it classified the descriptor as, which object the returned configuration
\* is, and what it returned.  The body has no
\* suspension point, so a call is one step.
CallRecord(profiles, device_info, performance_metrics, quality) ==
    [device_class |-> classify_device(device_info),
     config_is    |-> ReturnedObject(profiles, device_info, quality),
     returned     |-> optimize_for_device(profiles, device_info, performance_metrics,
                                          quality)]

\* A caller awaits optimize_for_device with the inputs under study.
OptimizeRequest ==
    /\ opt_request # NoValue
    /\ Len(opt_results) < MaxCalls
    /\ LET r == opt_request[1] IN
       /\ opt_results' = Append(opt_results,
              CallRecord(device_profiles, r.device_info, r.performance_metrics,
                         r.quality))
       /\ device_profiles' = ProfilesAfterCall(device_profiles, r.device_info, r.quality)
    /\ UNCHANGED <<opt_request, opt_other, response, stronger, stronger_result,
                   perf_input, predictions>>
    /\ UNCHANGED <<clsVars, statVars, janVars, detVars, imgVars, lockVars>>

\* Another caller awaits optimize_for_device with inputs of its own, after
\* Len(opt_results) of the calls under study.
OptimizeOther(device_info, quality) ==
    /\ opt_request # NoValue
    /\ opt_other' = Some([device_info |-> device_info, quality |-> quality,
                          after |-> Len(opt_results),
                          device_class |-> classify_device(device_info),
                          returned |-> optimize_for_device(device_profiles, device_info,
                                                           <<>>, quality)])
    /\ device_profiles' = ProfilesAfterCall(device_profiles, device_info, quality)
    /\ UNCHANGED <<opt_request, opt_results, response, stronger, stronger_result,
                   perf_input, predictions>>
    /\ UNCHANGED <<clsVars, statVars, janVars, detVars, imgVars, lockVars>>

\* A caller awaits optimize_for_device for the second descriptor, with the
\* metrics and the quality of the inputs under study.
OptimizeStronger ==
    /\ stronger # NoValue
    /\ stronger_result = NoValue
    /\ LET r == opt_request[1] IN
       /\ stronger_result' = Some(CallRecord(device_profiles, stronger[1],
                                             r.performance_metrics, r.quality))
       /\ device_profiles' = ProfilesAfterCall(device_profiles, stronger[1], r.quality)
    /\ UNCHANGED <<opt_request, opt_results, opt_other, response, stronger,
                   perf_input, predictions>>
    /\ UNCHANGED <<clsVars, statVars, janVars, detVars, imgVars, lockVars>>

\* The resolutions of the table, the ones predict_performance is asked about.
Resolutions == {DeviceProfiles[c].target_size[1] : c \in DOMAIN DeviceProfiles}

\* predict_performance is called for a square configuration of the given
\* size, with the drawn flags, on the drawn descriptor.
Predict(size) ==
    /\ perf_input # NoValue
    /\ size \notin DOMAIN predictions
    /\ LET in == perf_input[1]
           config == [target_size |-> <<size, size>>,
                      optimize_memory |-> in.optimize_memory,
                      enhance_quality |-> in.enhance_quality,
                      denoise |-> in.denoise]
       IN  predictions' = (size :> predict_performance(config, in.device_info))
                              @@ predictions
    /\ UNCHANGED <<device_profiles, opt_request, opt_results, opt_other, response,
                   stronger, stronger_result, perf_input>>
    /\ UNCHANGED <<clsVars, statVars, janVars, detVars, imgVars, lockVars>>

\* What optimize_model answers, lines 826-834, given what its call of the
\* optimizer evaluated to: the three keys of a dict, or HTTP 500 when `.get`
\* raises.
OptimizeResponse(value) ==
    IF HasGet(value)
    THEN [status |-> 200,
          optimized_config     |-> Get(value, "optimized_config", <<>>),
          expected_performance |-> Get(value, "expected_performance", <<>>),
          recommendations      |-> Get(value, "recommendations", <<>>)]
    ELSE [status |-> 500]

\* POST /optimize.  Line 820 calls optimize_for_device without await, so
\* `result` is a coroutine object and the optimizer's body does not run.
optimize_model ==
    /\ opt_request # NoValue
    /\ response = NoValue
    /\ response' = Some(OptimizeResponse(CoroutineObject))
    /\ UNCHANGED <<device_profiles, opt_request, opt_results, opt_other, stronger,
                   stronger_result, perf_input, predictions>>
    /\ UNCHANGED <<clsVars, statVars, janVars, detVars, imgVars, lockVars>>

\* ------------------------------------------------ validation and enrichment
\* self.confidence_thresholds, lines 194-199, in hundredths.
confidence_thresholds == [recycle |-> 70, compost |-> 80, landfill |-> 60, hazardous |-> 90]

\* The comparison made strict.
PassesStrict(detection) ==
    detection.confidence > Get(confidence_thresholds, detection.category, 50)

\* Lines 422-425: the threshold of the category, 0.5 for a category the
\* policy does not name, and the inclusive comparison.
Passes(detection) ==
    detection.confidence >= Get(confidence_thresholds, detection.category, 50)

\* A detection put at the front of the list.
Prepended(validated, detection) == <<detection>> \o validated

\* validated.append(detection), line 430.
Appended(validated, detection) == Append(validated, detection)

\* The loop of lines 420-430 on the rest of the list.
RECURSIVE ValidateFrom(_, _)
ValidateFrom(validated, detections) ==
    IF detections = <<>> THEN validated
    ELSE ValidateFrom(IF Passes(Head(detections))
                      THEN Appended(validated, Head(detections))
                      ELSE validated,
                      Tail(detections))

validate_detections_sync(detections) == ValidateFrom(<<>>, detections)

\* The database load_environmental_database falls back to when no file is
\* configured, lines 219-250.  Numbers are in thousandths.
environmental_database ==
    [plastic_bottle |->
         [co2_footprint |-> 2300, recycling_rate |-> 290,
          decomposition_time |-> "450 years",
          recycled_uses |-> <<"clothing", "carpets", "park benches">>],
     aluminum_can |->
         [co2_footprint |-> 3200, recycling_rate |-> 750,
          decomposition_time |-> "200-500 years", energy_saved_recycling |-> 950],
     food_waste |->
         [methane_production |-> 1100, compost_time |-> "3-6 months",
          soil_improvement |-> "rich nutrients"],
     paper |->
         [co2_footprint |-> 800, recycling_rate |-> 650,
          decomposition_time |-> "2-6 weeks",
          recycled_uses |-> <<"paper products", "cardboard">>],
     glass_bottle |->
         [co2_footprint |-> 500, recycling_rate |-> 330,
          decomposition_time |-> "1 million years",
          recycled_uses |-> <<"glass containers", "fiberglass">>]]

\* detection["label"].lower().replace(" ", "_"), line 439, on the labels of
\* the model.
LabelKey(label) ==
    CASE label = "Plastic Bottle" -> "plastic_bottle"
      [] label = "Apple Core"     -> "apple_core"
      [] label = "Cardboard Box"  -> "cardboard_box"
      [] label = "Styrofoam Cup"  -> "styrofoam_cup"
      [] label = "Battery"        -> "battery"
      [] label = "Mystery Item"   -> "mystery_item"

\* label.replace('_', ' '), lines 468-474, on the keys of the model.
Spoken(key) ==
    CASE key = "plastic_bottle" -> "plastic bottle"
      [] key = "apple_core"     -> "apple core"
      [] key = "cardboard_box"  -> "cardboard box"
      [] key = "styrofoam_cup"  -> "styrofoam cup"
      [] key = "battery"        -> "battery"
      [] key = "mystery_item"   -> "mystery item"

\* generate_disposal_instructions, lines 465-474: the text of the category,
\* and for a category that has none the text about local guidelines.  A text
\* is the sequence of the pieces of its f-string.
generate_disposal_instructions(category, label) ==
    LET instructions ==
            [recycle   |-> <<"Place ", Spoken(label), " in the recycling bin after rinsing.">>,
             compost   |-> <<"Place ", Spoken(label), " in the compost bin.">>,
             landfill  |-> <<"Place ", Spoken(label), " in the general waste bin.">>,
             hazardous |-> <<"Take ", Spoken(label), " to a hazardous waste collection point.">>]
    IN  Get(instructions, category, <<"Check local guidelines for disposing ", Spoken(label)>>)

\* The fractions, in thousandths, whose double multiplied by 100 is a double
\* just below the exact product: 0.29 * 100 = 28.999999999999996,
\* 0.57 * 100 = 56.99999999999999, 0.58 * 100 = 57.99999999999999.  For every
\* other fraction of 0..1000 thousandths the product's integer part is that
\* of the exact product.
ProductFallsShort == {290, 570, 580}

\* The percentage rounded to the nearest integer.
RoundedPercentage(fraction) == RoundHalfUp(fraction, 10)

\* int(env_data["energy_saved_recycling"] * 100), line 488: the double
\* product, cut to its integer part.  The fraction is in thousandths.
EnergySavedPercentage(fraction) ==
    IF fraction \in ProductFallsShort THEN (fraction \div 10) - 1 ELSE fraction \div 10

\* One tip: the text of its f-string and the values put into it.
Tip(text, values) == [text |-> text, values |-> values]

\* generate_tips, lines 476-511: the tips of the category, each fact of
\* env_data adding its tip, then the footprint's tip.  The label is not used.
generate_tips(category, label, env_data) ==
    LET has(key) == key \in DOMAIN env_data
        of_category ==
            IF category = "recycle"
            THEN <<Tip("Ensure item is clean and dry before recycling", <<>>)>>
                 \o (IF has("recycled_uses")
                     THEN <<Tip("When recycled, this can become: {uses}",
                                env_data["recycled_uses"])>>
                     ELSE <<>>)
                 \o (IF has("energy_saved_recycling")
                     THEN <<Tip("Recycling saves {percentage}% energy compared to manufacturing new",
                                <<EnergySavedPercentage(env_data["energy_saved_recycling"])>>)>>
                     ELSE <<>>)
            ELSE IF category = "compost"
            THEN <<Tip("Compostable items help create nutrient-rich soil", <<>>)>>
                 \o (IF has("compost_time")
                     THEN <<Tip("Takes approximately {compost_time} to decompose in compost",
                                <<env_data["compost_time"]>>)>>
                     ELSE <<>>)
            ELSE IF category = "landfill"
            THEN (IF has("decomposition_time")
                  THEN <<Tip("Takes {decomposition_time} to decompose in landfill",
                             <<env_data["decomposition_time"]>>)>>
                  ELSE <<>>)
                 \o <<Tip("Consider alternatives that can be recycled or composted", <<>>)>>
            ELSE IF category = "hazardous"
            THEN <<Tip("Never mix with regular trash or recycling", <<>>),
                   Tip("Keep in original container if possible", <<>>)>>
            ELSE <<>>
    IN  of_category
        \o (IF has("co2_footprint")
            THEN <<Tip("Produces approximately {co2_footprint}kg CO2 equivalent",
                       <<env_data["co2_footprint"]>>)>>
            ELSE <<>>)

\* The DetectionResult of one detection, lines 438-459: label, category and
\* confidence are copied, the impact is the database's entry for the
\* normalized label or {}, the instructions come from the category and the
\* normalized label, the tips from the category and the impact; the id is a
\* fresh uuid.
EnrichedResult(detection, id) ==
    LET label    == LabelKey(detection.label)
        env_data == Get(environmental_database, label, <<>>)
    IN  [id |-> id,
         label |-> detection.label, category |-> detection.category,
         confidence |-> detection.confidence, bbox |-> detection.bbox,
         instructions |-> generate_disposal_instructions(detection.category, label),
         tips |-> generate_tips(detection.category, label, env_data),
         environmental_impact |-> env_data]

\* enrich_with_environmental_data, lines 434-463: one result per detection,
\* appended in the order of the list.
enrich_with_environmental_data(detections, ids) ==
    [i \in 1..Len(detections) |-> EnrichedResult(detections[i], ids[i])]

\* The ids one call of enrich_with_environmental_data can draw for n
\* detections: uuid.uuid4() (line 451) gives a random value at each call, so
\* the ids of a list are one of several draws, no id being in two of them.
Uuids(n) == {[i \in 1..n |-> <<draw, i>>] : draw \in {"a", "b"}}

\* What ensemble_predict returns, lines 378-413.
MockDetections ==
    << [label |-> "Plastic Bottle", category |-> "recycle",  confidence |-> 92,
        bbox |-> <<100, 50, 200, 300>>],
       [label |-> "Apple Core",     category |-> "compost",  confidence |-> 87,
        bbox |-> <<300, 100, 450, 250>>],
       [label |-> "Cardboard Box",  category |-> "recycle",  confidence |-> 89,
        bbox |-> <<50, 400, 250, 550>>],
       [label |-> "Styrofoam Cup",  category |-> "landfill", confidence |-> 78,
        bbox |-> <<400, 300, 500, 400>>] >>

\* A predictor that keeps the detections the request's threshold admits.
ensemble_predict_cut(img, config) ==
    SelectSeq(MockDetections, LAMBDA d : d.confidence >= config.confidence_threshold)

\* ensemble_predict, lines 370-413: after its sleep it returns the list
\* above; it reads neither the image nor config.
ensemble_predict(img, config) == MockDetections

\* A label of each category of the policy and one of a category outside it.
Items ==
    {<<"Plastic Bottle", "recycle">>, <<"Apple Core", "compost">>,
     <<"Styrofoam Cup", "landfill">>, <<"Battery", "hazardous">>,
     <<"Mystery Item", "unknown">>}

\* The confidences drawn for a category: its threshold and one hundredth
\* below it, the default threshold, and just below the highest threshold.
Confidences(category) ==
    LET th == Get(confidence_thresholds, category, 50) IN {th - 1, th, 50, 89}

\* A raw detection as the predictor writes one, lines 378-411, with the
\* keys the later stages read; the drawn ones share a bounding box.
Detection(label, category, confidence) ==
    [label |-> label, category |-> category, confidence |-> confidence,
     bbox |-> <<0, 0, 10, 10>>]

DrawnDetections ==
    UNION {{Detection(it[1], it[2], c) : c \in Confidences(it[2])} : it \in Items}

\* The lists the stages are applied to: the predictor's, and every list of
\* at most MaxDetections drawn detections.
RawLists ==
    {MockDetections} \cup UNION {[1..n -> DrawnDetections] : n \in 0..MaxDetections}

\* detection_config as detect_waste builds it, lines 727-733, with the
\* request's confidence_threshold (in hundredths) and model_version.  The
\* device_config is the {} of line 718: a request that carries a device
\* descriptor fails at lines 720-724 (DetectWithDevice) and builds none.
RequestConfig(confidence_threshold) ==
    [confidence_threshold |-> confidence_threshold, model_version |-> "latest"]
    @@ DetectionConfig(<<>>)

\* The confidence_threshold values of a request: the bounds of the field
\* (ge=0.0, le=1.0, line 105), its default, and values among the policy's.
RequestThresholds == {0, 50, 75, 85, 100}

\* classify_image awaits the predictor with the preprocessed image and the
\* request's configuration, line 299.
PredictStage ==
    /\ img_pc = "infer"
    /\ det_pc = "idle"
    /\ raw_detections' = ensemble_predict(image[1], img_config)
    /\ det_pc' = "raw"
    /\ UNCHANGED <<validated_detections, enriched_detections, det_returned, tip_input,
                   tips>>
    /\ UNCHANGED <<clsVars, statVars, janVars, optVars, imgVars, lockVars>>

\* The executor job of the validate stage, lines 302-305: it is given the
\* predictor's detections and the image, not config.
Validate ==
    /\ det_pc = "raw"
    /\ validated_detections' = validate_detections_sync(raw_detections)
    /\ det_pc' = "validated"
    /\ UNCHANGED <<raw_detections, enriched_detections, det_returned, tip_input, tips>>
    /\ UNCHANGED <<clsVars, statVars, janVars, optVars, imgVars, lockVars>>

\* classify_image awaits the enrichment of the validated list and returns it.
Enrich ==
    /\ det_pc = "validated"
    /\ \E ids \in Uuids(Len(validated_detections)) :
           enriched_detections' = enrich_with_environmental_data(validated_detections, ids)
    /\ det_pc' = "enriched"
    /\ UNCHANGED <<raw_detections, validated_detections, det_returned, tip_input, tips>>
    /\ UNCHANGED <<clsVars, statVars, janVars, optVars, imgVars, lockVars>>

\* The energy-saved fractions of a catalog fact, in thousandths.
Fractions == 0..1000

\* The facts generate_tips is called with: the entries of the database, and
\* the can's entry with every fraction, with and without its footprint.
TipFacts ==
    {environmental_database[k] : k \in DOMAIN environmental_database}
    \cup {[environmental_database["aluminum_can"] EXCEPT !.energy_saved_recycling = f] :
             f \in Fractions}
    \cup {[recycling_rate |-> 750, energy_saved_recycling |-> f] : f \in Fractions}

\* The arguments of a call: a category of the policy or one outside it, and
\* {} or a fact.
TipInputs ==
    [category : DOMAIN confidence_thresholds \cup {"unknown"},
     label    : {"aluminum_can"},
     env_data : {NoValue} \cup {Some(fact) : fact \in TipFacts}]

\* enrich_with_environmental_data calls generate_tips, line 446; env_data is
\* {} when the database has no entry.
GenerateTips ==
    /\ tip_input # NoValue
    /\ tips = NoValue
    /\ LET in == tip_input[1]
           env_data == IF in.env_data = NoValue THEN <<>> ELSE in.env_data[1]
       IN  tips' = Some(generate_tips(in.category, in.label, env_data))
    /\ UNCHANGED <<raw_detections, validated_detections, enriched_detections, det_pc,
                   det_returned, tip_input>>
    /\ UNCHANGED <<clsVars, statVars, janVars, optVars, imgVars, lockVars>>

\* ------------------------------------------- decoding and preprocessing
\* request.image_data by what decode_base64_image can tell apart: the text
\* may open with a data URL header, with or without the comma that ends it,
\* the base64 text may be well formed or have incorrect padding, and the
\* bytes may be an image OpenCV can decode, other bytes, or no bytes.
Payloads ==
    [prefix  : {"none", "data_url", "data_url_no_comma"},
     base64  : {"valid", "bad_padding"},
     content : {"image", "not_image", "empty"}]

\* The shape of the decoded picture (rows, columns).
DecodedShape == <<720, 1280>>

\* A decode that answers a failure with a blank image.
BlankImage(cause) == [ok |-> TRUE, image |-> [shape |-> <<0, 0>>, steps |-> <<"blank">>]]

\* Lines 338-339: whatever was raised inside the try becomes a ValueError.
DecodeFailure(cause) == [ok |-> FALSE, error |-> "ValueError", cause |-> cause]

\* decode_base64_image, lines 319-339.  split(",")[1] raises IndexError when
\* the header has no comma, b64decode raises on incorrect padding,
\* cv2.imdecode raises on an empty buffer and returns None for bytes that are
\* no image, on which cv2.cvtColor raises.
decode_base64_image(data) ==
    IF data.prefix = "data_url_no_comma" THEN DecodeFailure("IndexError")
    ELSE IF data.base64 = "bad_padding" THEN DecodeFailure("binascii.Error")
    ELSE IF data.content # "image" THEN DecodeFailure("cv2.error")
    ELSE [ok |-> TRUE, image |-> [shape |-> DecodedShape, steps |-> <<"decoded">>]]

\* The preprocessing steps in the order of lines 345-362: enhancement and
\* denoising run only when the configuration asks for them.
PlannedSteps(config) ==
    <<"resize">>
    \o (IF Get(config, "enhance_quality", TRUE) THEN <<"enhance">> ELSE <<>>)
    \o (IF Get(config, "denoise", TRUE) THEN <<"denoise">> ELSE <<>>)
    \o <<"normalize">>

\* `image = step(image)`: the variable is rebound when the step returns.
\* cv2.resize makes the shape (rows, columns) of the target (width, height).
StepApplied(img, step, config) ==
    [shape |-> IF step = "resize"
               THEN <<Get(config, "target_size", <<640, 640>>)[2],
                      Get(config, "target_size", <<640, 640>>)[1]>>
               ELSE img.shape,
     steps |-> Append(img.steps, step)]

\* The steps run one after the other until one raises: the image is then
\* what the last step that returned had bound it to.
RECURSIVE RunSteps(_, _, _, _)
RunSteps(img, steps, config, failing) ==
    IF steps = <<>> THEN [raised |-> FALSE, image |-> img]
    ELSE IF Head(steps) = failing THEN [raised |-> TRUE, image |-> img]
    ELSE RunSteps(StepApplied(img, Head(steps), config), Tail(steps), config, failing)

\* A preprocessing failure passed on to the caller.
Escalated(img) == [ok |-> FALSE, image |-> img]

\* Lines 366-368: the exception is logged and `image` is returned.
Recovered(img) == [ok |-> TRUE, image |-> img]

\* preprocess_image_sync, lines 341-368, with the step that raises.
preprocess_image_sync(img, config, failing) ==
    LET run == RunSteps(img, PlannedSteps(config), config, failing) IN
    IF run.raised THEN Recovered(run.image) ELSE [ok |-> TRUE, image |-> run.image]

\* What classify_image raises for an exception caught at line 315.
ClassificationFailed(exception) == [exception |-> "HTTPException", status_code |-> 500]

\* detect_waste, lines 769-774: `except Exception` also catches the
\* HTTPException of classify_image and raises HTTPException(500), which
\* FastAPI sends as the response.
DetectionFailed(exception) == [status_code |-> 500]

\* The response of a request that ended without an exception, lines 760-767.
DetectionSucceeded == [status_code |-> 200]

\* A stage raised: classify_image's handler, then detect_waste's.
StageRaised(exception) ==
    /\ img_error' = Some(ClassificationFailed(exception))
    /\ img_response' = Some(DetectionFailed(ClassificationFailed(exception)))
    /\ img_pc' = "failed"
    /\ UNCHANGED image

\* classify_image awaits the decode job, lines 286-289.
DecodeStage ==
    /\ img_pc = "decode"
    /\ img_ran' = Append(img_ran, "decode")
    /\ LET out == decode_base64_image(image_data) IN
       IF out.ok
       THEN /\ image' = Some(out.image)
            /\ img_pc' = "preprocess"
            /\ UNCHANGED <<img_error, img_response>>
       ELSE StageRaised(out.error)
    /\ UNCHANGED <<image_data, img_config, fault>>
    /\ UNCHANGED <<clsVars, statVars, janVars, optVars, detVars, lockVars>>

\* classify_image awaits the preprocessing job, lines 292-295.
PreprocessStage ==
    /\ img_pc = "preprocess"
    /\ img_ran' = Append(img_ran, "preprocess")
    /\ LET out == preprocess_image_sync(image[1], img_config, fault) IN
       IF out.ok
       THEN /\ image' = Some(out.image)
            /\ img_pc' = "infer"
            /\ UNCHANGED <<img_error, img_response>>
       ELSE StageRaised("Exception")
    /\ UNCHANGED <<image_data, img_config, fault>>
    /\ UNCHANGED <<clsVars, statVars, janVars, optVars, detVars, lockVars>>

\* The stages after preprocessing, lines 299-308; none of them changes the
\* image.  The predictor may raise; after enrich detect_waste responds.
LaterStage ==
    /\ img_pc \in {"infer", "validate", "enrich"}
    /\ img_ran' = Append(img_ran, img_pc)
    /\ IF img_pc = fault
       THEN StageRaised("Exception")
       ELSE /\ img_pc' = IF img_pc = "enrich" THEN "done" ELSE NextStage(img_pc)
            /\ img_response' = IF img_pc = "enrich" THEN Some(DetectionSucceeded)
                               ELSE img_response
            /\ UNCHANGED <<image, img_error>>
    /\ UNCHANGED <<image_data, img_config, fault>>
    /\ UNCHANGED <<clsVars, statVars, janVars, optVars, detVars, lockVars>>

\* detect_waste answers with the detections classify_image returned, lines
\* 760-767.
Respond ==
    /\ img_pc = "infer"
    /\ det_pc = "enriched"
    /\ det_returned' = Append(det_returned,
           [confidence_threshold |-> img_config.confidence_threshold,
            detections |-> enriched_detections])
    /\ img_response' = Some(DetectionSucceeded)
    /\ img_pc' = "done"
    /\ det_pc' = "returned"
    /\ UNCHANGED <<raw_detections, validated_detections, enriched_detections, tip_input,
                   tips>>
    /\ UNCHANGED <<image_data, img_config, fault, image, img_error, img_ran>>
    /\ UNCHANGED <<clsVars, statVars, janVars, optVars, lockVars>>

\* A further detect request that differs from the answered one in its
\* confidence_threshold only.
NextRequest(confidence_threshold) ==
    /\ det_pc = "returned"
    /\ Len(det_returned) < MaxRequests
    /\ img_config' = [img_config EXCEPT !.confidence_threshold = confidence_threshold]
    /\ image' = NoValue
    /\ img_response' = NoValue
    /\ img_pc' = "decode"
    /\ img_ran' = <<>>
    /\ raw_detections' = <<>>
    /\ validated_detections' = <<>>
    /\ enriched_detections' = <<>>
    /\ det_pc' = "idle"
    /\ UNCHANGED <<det_returned, tip_input, tips>>
    /\ UNCHANGED <<image_data, fault, img_error>>
    /\ UNCHANGED <<clsVars, statVars, janVars, optVars, lockVars>>

\* ---------------------------------------------------------- specifications
\* The state of the classifier, the statistics, the cache and the cleanup
\* task in a phase of lifespan, with no request made.  Before the warm-up of
\* line 64 ("startup"), and for the module's own classifier when no
\* application runs ("none"), the classifier is as __init__ leaves it (lines
\* 205-206) and there is no cleanup task.  At the yield of line 70
\* ("serving") the startup warm-up has set the flag and released the lock
\* and the cleanup task exists.
ServiceState(phase) ==
    /\ lifespan_pc = phase
    /\ pool_shutdown = FALSE
    /\ initialized = (phase = "serving")
    /\ lock_locked = FALSE
    /\ lock_waiters = <<>>
    /\ op = [t \in Tasks |-> "none"]
    /\ pc = [t \in Tasks |-> "idle"]
    /\ stage_out = [t \in Tasks |-> "none"]
    /\ result = [t \in Tasks |-> "none"]
    /\ proc_time = [t \in Tasks |-> 0]
    /\ request_device_info = [t \in Tasks |-> NoValue]
    /\ detection_config = [t \in Tasks |-> NoValue]
    /\ wu_result = [t \in Tasks |-> "none"]
    /\ attempted = [t \in Tasks |-> FALSE]
    /\ overlap = [t \in Tasks |-> FALSE]
    /\ waited_on_failed = [t \in Tasks |-> FALSE]
    /\ stage_log = [t \in Tasks |-> <<>>]
    /\ performance_stats = [total_requests |-> 0, average_processing_time |-> <<0, 1>>]
    /\ recorded = <<>>
    /\ snapshot = <<>>
    /\ janitor_pc = IF phase = "serving" THEN "sleeping" ELSE "not_created"
    /\ cancel_requested = FALSE
    /\ model_cache = <<>>
    /\ last_gc_time = 0
    /\ last_sweep = -1
    /\ last_evicted = {}
    /\ now = 0
    /\ ticks = 0
    /\ memory_lock = FALSE
    /\ accesses = IF phase = "serving"
                  THEN {FlagReadUnlocked("warm_up"), FlagReadLocked, FlagWritten}
                  ELSE {}

\* lifespan is entered: nothing of its startup has run.
ServiceInit == ServiceState("startup")

\* lifespan has yielded and no request has been made yet.
Serving == ServiceState("serving")

\* The module's own classifier, `classifier = AdvancedWasteClassifier()` at
\* line 514, with no application running.
ClassifierInit == ServiceState("none")

\* The optimizer as __init__ leaves it, with no call made.
OptimizerIdle ==
    /\ device_profiles = DeviceProfiles
    /\ opt_results = <<>>
    /\ opt_other = NoValue
    /\ response = NoValue
    /\ stronger_result = NoValue
    /\ predictions = <<>>

\* No detections drawn.
DetectionsIdle ==
    /\ raw_detections = <<>>
    /\ validated_detections = <<>>
    /\ enriched_detections = <<>>
    /\ det_pc = "idle"
    /\ det_returned = <<>>
    /\ tip_input = NoValue
    /\ tips = NoValue

\* No image request drawn.
ImageIdle ==
    /\ image_data = NoValue
    /\ img_config = NoValue
    /\ fault = "none"
    /\ image = NoValue
    /\ img_error = NoValue
    /\ img_response = NoValue
    /\ img_pc = "idle"
    /\ img_ran = <<>>

\* No optimizer call, detection, tip or image request is under study.
OthersIdle ==
    /\ OptimizerIdle
    /\ perf_input = NoValue
    /\ opt_request = NoValue
    /\ stronger = NoValue
    /\ DetectionsIdle
    /\ ImageIdle

\* The application as lifespan finds it.
Init == ServiceInit /\ OthersIdle

\* The module's own classifier with its direct callers.
InitClassifier == ClassifierInit /\ OthersIdle

\* The application before startup, or the module's own classifier.
InitEither == Init \/ InitClassifier

\* lifespan: the startup, and the shutdown with its cancellation of the
\* cleanup task.
LifespanNext ==
    \/ Startup
    \/ \E ok \in BOOLEAN : StartupDone(ok)
    \/ Cancel

\* The requests of the application, their background tasks and the health
\* operation.
RequestNext ==
    \/ \E t \in Tasks, dev \in DetectDevices : Call(t, "detect", dev)
    \/ \E t \in Tasks, dev \in DetectDevices : DetectWithDevice(t, dev)
    \/ \E t \in Tasks, out \in {"ok", "error"} : StageFinish(t, out)
    \/ \E t \in Tasks, d \in ProcTimes : Resume(t, d)
    \/ \E t \in Tasks : update_performance_stats(t)
    \/ health_check

\* The callers of warm_up and of classify_image, up to the return of the
\* call.
ClassifierNext ==
    \/ \E t \in Tasks, kind \in {"warm_up", "detect"} : Call(t, kind, NoValue)
    \/ \E t \in Tasks : WaiterAcquire(t)
    \/ \E t \in Tasks, ok \in BOOLEAN : InitDone(t, ok)
    \/ \E t \in Tasks, out \in {"ok", "error"} : StageFinish(t, out)
    \/ \E t \in Tasks, d \in ProcTimes : Resume(t, d)

\* The cleanup task.
CleanupNext ==
    \/ \E fail \in {"none", "scan", "report"} : Sweep(fail)
    \/ Cancelled

\* The users of the cache and the clock.
CacheNext ==
    \/ \E k \in ModelKeys : UseModel(k)
    \/ \E d \in TimeSteps : Tick(d)

\* The application: lifespan, requests, statistics and the cleanup task.
\* Nothing in src/api/main.py stores into app.state.model_cache, so here the
\* cache stays as lifespan creates it.
Next == LifespanNext \/ RequestNext \/ CleanupNext

Spec == Init /\ [][Next]_vars

\* The module's own classifier called concurrently.
SpecClassifier == InitClassifier /\ [][ClassifierNext]_vars

\* The tasks that take or wait for a lock, under the application (lifespan's
\* warm-up, the classify requests, the cleanup task) and on the module's own
\* classifier (concurrent callers of warm_up and classify_image).
LockingNext == LifespanNext \/ ClassifierNext \/ CleanupNext

SpecLocking == InitEither /\ [][LockingNext]_vars

\* lifespan, the requests, the statistics and the health operation, without
\* the cleanup task.
RequestsNext == LifespanNext \/ RequestNext

SpecRequests == Init /\ [][RequestsNext]_vars

\* The cleanup task with a cache that is in use and a clock that advances.
JanitorNext == LifespanNext \/ CleanupNext \/ CacheNext

SpecJanitor == Init /\ [][JanitorNext]_vars

\* The same with the event loop's scheduling: a task whose cancellation has
\* been requested is resumed, with CancelledError thrown at its await.
SpecJanitorFair == Init /\ [][JanitorNext]_vars /\ WF_vars(Cancelled)

\* The optimizer called, and the optimize endpoint requested, with inputs
\* drawn from the descriptors, the metrics and the three qualities.
InitOptimizer ==
    /\ Serving
    /\ OptimizerIdle
    /\ perf_input = NoValue
    /\ opt_request \in {Some(r) : r \in Requests(Devices)}
    /\ stronger = NoValue
    /\ DetectionsIdle
    /\ ImageIdle

OptimizerNext ==
    \/ OptimizeRequest
    \/ optimize_model

SpecOptimizer == InitOptimizer /\ [][OptimizerNext]_vars

\* Repeated calls with the same inputs, other calls made in between; the
\* descriptors include two with a value that is no number.
InitRepeat ==
    /\ Serving
    /\ OptimizerIdle
    /\ perf_input = NoValue
    /\ \/ opt_request \in {Some(r) : r \in Requests(TierDevices \cup MobileDevices)}
       \/ opt_request \in {Some(r) : r \in Requests(TextMemoryDevices)}
       \/ opt_request \in {Some(r) : r \in Requests(TextGpuDevices)}
    /\ stronger = NoValue
    /\ DetectionsIdle
    /\ ImageIdle

RepeatNext ==
    \/ OptimizeRequest
    \/ \E d \in TierDevices, q \in Qualities : OptimizeOther(d, q)
    \/ \E d \in TextMemoryDevices, q \in Qualities : OptimizeOther(d, q)

SpecRepeat == InitRepeat /\ [][RepeatNext]_vars

\* Two descriptors, the second more capable, optimized for the same quality.
InitMonotone ==
    /\ Serving
    /\ OptimizerIdle
    /\ perf_input = NoValue
    /\ \E p \in MonotonePairs, q \in Qualities :
          /\ opt_request = Some([device_info |-> p[1], performance_metrics |-> <<>>,
                                 quality |-> q])
          /\ stronger = Some(p[2])
    /\ DetectionsIdle
    /\ ImageIdle

MonotoneNext ==
    \/ OptimizeRequest
    \/ OptimizeStronger

SpecMonotone == InitMonotone /\ [][MonotoneNext]_vars

\* predict_performance on a drawn descriptor and drawn flags, one resolution
\* after the other.
InitPredict ==
    /\ Serving
    /\ OptimizerIdle
    /\ opt_request = NoValue
    /\ stronger = NoValue
    /\ perf_input \in {Some(in) : in \in [device_info : Devices,
                                           optimize_memory : BOOLEAN,
                                           enhance_quality : BOOLEAN,
                                           denoise : BOOLEAN]}
    /\ DetectionsIdle
    /\ ImageIdle

PredictNext == \E size \in Resolutions : Predict(size)

SpecPredict == InitPredict /\ [][PredictNext]_vars

\* One request through the stages, with a drawn payload, a drawn
\* configuration and a drawn preprocessing step that raises.
InitImage ==
    /\ Serving
    /\ OptimizerIdle
    /\ opt_request = NoValue
    /\ stronger = NoValue
    /\ perf_input = NoValue
    /\ DetectionsIdle
    /\ image_data \in Payloads
    /\ img_config \in [target_size : {<<r, r>> : r \in Resolutions},
                       enhance_quality : BOOLEAN, denoise : BOOLEAN]
    /\ fault \in {"none", "resize", "enhance", "denoise", "normalize", "infer"}
    /\ image = NoValue
    /\ img_error = NoValue
    /\ img_response = NoValue
    /\ img_pc = "decode"
    /\ img_ran = <<>>

ImageNext ==
    \/ DecodeStage
    \/ PreprocessStage
    \/ LaterStage

SpecImage == InitImage /\ [][ImageNext]_vars

\* generate_tips on drawn categories and facts.
InitTips ==
    /\ Serving
    /\ OptimizerIdle
    /\ perf_input = NoValue
    /\ opt_request = NoValue
    /\ stronger = NoValue
    /\ raw_detections = <<>>
    /\ validated_detections = <<>>
    /\ enriched_detections = <<>>
    /\ det_pc = "idle"
    /\ det_returned = <<>>
    /\ tip_input \in {Some(in) : in \in TipInputs}
    /\ tips = NoValue
    /\ ImageIdle

TipsNext == GenerateTips

SpecTips == InitTips /\ [][TipsNext]_vars

\* The validate and enrich stages on drawn lists of raw detections.
InitDetections ==
    /\ Serving
    /\ OptimizerIdle
    /\ perf_input = NoValue
    /\ opt_request = NoValue
    /\ stronger = NoValue
    /\ raw_detections \in RawLists
    /\ validated_detections = <<>>
    /\ enriched_detections = <<>>
    /\ det_pc = "raw"
    /\ det_returned = <<>>
    /\ tip_input = NoValue
    /\ tips = NoValue
    /\ ImageIdle

DetectionsNext ==
    \/ Validate
    \/ Enrich

SpecDetections == InitDetections /\ [][DetectionsNext]_vars

\* Detect requests without a device descriptor through every stage of
\* classify_image, each one after the first differing from the one before
\* in its confidence_threshold only.
\* The image decodes; a preprocessing step may raise, which
\* preprocess_image_sync recovers from.
InitThreshold ==
    /\ Serving
    /\ OptimizerIdle
    /\ perf_input = NoValue
    /\ opt_request = NoValue
    /\ stronger = NoValue
    /\ DetectionsIdle
    /\ image_data \in {data \in Payloads : decode_base64_image(data).ok}
    /\ img_config \in {RequestConfig(th) : th \in RequestThresholds}
    /\ fault \in {"none", "resize", "denoise"}
    /\ image = NoValue
    /\ img_error = NoValue
    /\ img_response = NoValue
    /\ img_pc = "decode"
    /\ img_ran = <<>>

ThresholdNext ==
    \/ DecodeStage
    \/ PreprocessStage
    \/ PredictStage
    \/ Validate
    \/ Enrich
    \/ Respond
    \/ \E th \in RequestThresholds : NextRequest(th)

SpecThreshold == InitThreshold /\ [][ThresholdNext]_vars

\* ------------------------------------------------------------------ claims
RECURSIVE SumSeq(_)
SumSeq(s) == IF s = <<>> THEN 0 ELSE Head(s) + SumSeq(Tail(s))

IsPrefix(s, t) == Len(s) <= Len(t) /\ SubSeq(t, 1, Len(s)) = s

\* The callers whose warm_up calls were all made before any warm_up call
\* returned: a batch of concurrent calls on the uninitialized classifier.
Batch == {t \in Tasks : overlap[t]}

\* C1: N >= 1 concurrent warm_up calls run exactly one initialization attempt
\* in total and all observe the same outcome, also when that attempt fails.
C1_SingleFlight ==
    (Batch # {} /\ \A t \in Batch : wu_result[t] # "none")
        => /\ Cardinality({t \in Batch : attempted[t]}) = 1
           /\ \A t, u \in Batch : wu_result[t] = wu_result[u]

InFlight == {t \in Tasks : pc[t] = "initializing"}

\* C2: at most one initialization attempt is in flight in every state, and a
\* caller that arrives at warm_up while one is running (a detect request
\* stopped before classify_image does not arrive there) queues on the lock
\* instead of starting a second one.
C2_AtMostOneInFlight ==
    /\ [](Cardinality(InFlight) <= 1)
    /\ [][\A t \in Tasks :
            (pc[t] = "idle" /\ pc'[t] # "idle" /\ InFlight # {}
                /\ ~Truthy(request_device_info'[t]))
                => (pc'[t] = "lock_wait" /\ attempted'[t] = attempted[t])]_vars

\* Two callers: one holds the lock and initializes, the other is queued.
C2_Witness ==
    \E t, u \in Tasks : pc[t] = "initializing" /\ pc[u] = "lock_wait"

\* C3: once initialized is true it stays true, whatever calls, requests,
\* sweeps and failures follow, and no initialization attempt starts any more,
\* by a caller or by lifespan.
C3_ReadyIsPermanent ==
    [][initialized => /\ initialized'
                      /\ attempted' = attempted
                      /\ lifespan_pc' # "warming_up"]_vars

\* One caller initialized the classifier; a warm_up call made after that
\* call had returned has returned too, without an attempt of its own.
C3_Witness ==
    /\ initialized
    /\ \E t, u \in Tasks :
          /\ attempted[t] /\ wu_result[t] = "ok"
          /\ op[u] = "warm_up" /\ ~overlap[u]
          /\ wu_result[u] = "ok" /\ ~attempted[u]

\* C4: when the in-flight initialization fails, its error is propagated to
\* every caller that was waiting on it.
C4_ErrorReachesWaiters ==
    \A t \in Tasks :
        (waited_on_failed[t] /\ wu_result[t] # "none") => wu_result[t] = "error"

\* The mean of a sequence of processing times, in lowest terms.
MeanOf(times) ==
    IF times = <<>> THEN <<0, 1>> ELSE Normalize(<<SumSeq(times), Len(times)>>)

\* C5: after the update calls with times t1..tn, in whatever order the
\* background tasks ran, total_requests = n and the average is their mean.
C5_StatsCorrect ==
    /\ performance_stats.total_requests = Len(recorded)
    /\ performance_stats.average_processing_time = MeanOf(recorded)

\* Two updates with different times have run.
C5_Witness ==
    /\ Len(recorded) = NumTasks
    /\ \E i, j \in 1..Len(recorded) : recorded[i] # recorded[j]
    /\ performance_stats.total_requests = NumTasks

\* C6: what health_check reads is the pair as it stood after some whole
\* number of completed updates.
C6_SnapshotConsistent ==
    snapshot # <<>> =>
        \E k \in 0..Len(recorded) :
            /\ snapshot[1] = k
            /\ snapshot[2] = MeanOf(SubSeq(recorded, 1, k))

\* health_check ran between two updates with different times.
C6_Witness ==
    /\ snapshot # <<>>
    /\ snapshot[1] = 1
    /\ Len(recorded) = 2
    /\ recorded[1] # recorded[2]

\* C7: every step leaves total_requests unchanged or adds exactly one.
C7_CountMonotone ==
    [][\/ performance_stats'.total_requests = performance_stats.total_requests
       \/ performance_stats'.total_requests = performance_stats.total_requests + 1]_vars

\* The count was incremented more than once.
C7_Witness == performance_stats.total_requests = NumTasks

\* C8: a sweep at a time up to T+TTL-1 keeps a handle last used at T, and
\* after a sweep at a time later than T+TTL the handle is absent.
C8_Eviction ==
    /\ [][\A k \in DOMAIN model_cache :
            now <= LastUsed(model_cache[k]) + TTL - 1 => k \in DOMAIN model_cache']_vars
    /\ [](\A k \in DOMAIN model_cache :
            last_sweep # -1 => ~(last_sweep > LastUsed(model_cache[k]) + TTL))

\* One sweep at time 601: the handle used at 0 was removed, the handle used
\* at 1 (idle for exactly TTL) was kept.
C8_Witness ==
    /\ last_sweep = TTL + 1
    /\ last_evicted = {"detection"}
    /\ "classification" \in DOMAIN model_cache
    /\ LastUsed(model_cache["classification"]) = 1

\* C9: a sweep that raises does not end the loop; only cancellation does: a
\* cleanup task that was created and no longer sleeps between sweeps has been
\* cancelled.
C9_LoopSurvivesError ==
    janitor_pc \notin {"not_created", "sleeping"} => cancel_requested

\* The stage events of one request in the order of the pipeline.
StageEvents ==
    << <<"decode", "start">>,     <<"decode", "end">>,
       <<"preprocess", "start">>, <<"preprocess", "end">>,
       <<"infer", "start">>,      <<"infer", "end">>,
       <<"validate", "start">>,   <<"validate", "end">>,
       <<"enrich", "start">>,     <<"enrich", "end">> >>

\* C10: each request runs decode, preprocess, infer, validate, enrich in this
\* order, a stage starting only after the preceding one has ended.
C10_StageOrder == \A t \in Tasks : IsPrefix(stage_log[t], StageEvents)

\* One request went through all five stages while another is in the pipeline.
C10_Witness ==
    \E t, u \in Tasks :
        /\ stage_log[t] = StageEvents
        /\ pc[u] \in AwaitedStages
        /\ pc[t] = "respond"

\* C11: a detect request that carries a device descriptor gets its
\* configuration from the profile the optimizer resolves for it (target
\* resolution, enhancement and denoise flags), runs the pipeline and answers
\* successfully: it fails only when the initialization or a stage fails.
C11_DeviceProfileApplied ==
    \A t \in Tasks :
        (op[t] = "detect" /\ Truthy(request_device_info[t])) =>
            /\ detection_config[t] =
                   Some(DetectionConfig(
                       optimize_for_device(device_profiles, request_device_info[t][1],
                           [preferred_quality |-> "balanced"], "balanced").optimized_config))
            /\ result[t] = "error" => (wu_result[t] = "error" \/ stage_out[t] = "error")

\* C12: for every descriptor and every quality the optimize operation ends
\* successfully with the profile, the prediction and the recommendations the
\* optimizer computes for these inputs.
C12_OptimizeSucceeds ==
    response # NoValue =>
        LET r == opt_request[1]
            computed == optimize_for_device(DeviceProfiles, r.device_info,
                                            r.performance_metrics, r.quality)
        IN  /\ response[1].status = 200
            /\ response[1] = [status |-> 200,
                              optimized_config     |-> computed.optimized_config,
                              expected_performance |-> computed.expected_performance,
                              recommendations      |-> computed.recommendations]

\* The threshold the confidence policy gives a category.
PolicyThreshold(category) ==
    IF category \in DOMAIN confidence_thresholds
    THEN confidence_thresholds[category] ELSE 50

\* C13: a raw detection whose confidence is below the threshold of its
\* category (0.5 for a category outside the policy) is absent from the
\* validated list, and one at or above the threshold is present.
C13_ThresholdFilter ==
    det_pc \in {"validated", "enriched"} =>
        \A i \in 1..Len(raw_detections) :
            LET d == raw_detections[i] IN
            /\ d.confidence < PolicyThreshold(d.category)
                   => d \notin Range(validated_detections)
            /\ d.confidence >= PolicyThreshold(d.category)
                   => d \in Range(validated_detections)

\* A recycle detection exactly at 0.70 was kept, one at 0.69 was dropped, and
\* a detection of an unknown category at 0.50 was kept.
C13_Witness ==
    /\ det_pc = "validated"
    /\ \E i, j, k \in 1..Len(raw_detections) :
          /\ raw_detections[i] = Detection("Plastic Bottle", "recycle", 70)
          /\ raw_detections[i] \in Range(validated_detections)
          /\ raw_detections[j] = Detection("Plastic Bottle", "recycle", 69)
          /\ raw_detections[j] \notin Range(validated_detections)
          /\ raw_detections[k] = Detection("Mystery Item", "unknown", 50)
          /\ raw_detections[k] \in Range(validated_detections)

\* The positions of the raw detections that pass the confidence filter.
PassingPositions ==
    {i \in 1..Len(raw_detections) :
        raw_detections[i].confidence >= PolicyThreshold(raw_detections[i].category)}

\* C14: the result holds exactly one enriched detection for each raw
\* detection that passed the filter and no other, in the order of the raw
\* detections.
C14_OnePerSurvivorInOrder ==
    det_pc = "enriched" =>
        \E f \in [1..Len(enriched_detections) -> 1..Len(raw_detections)] :
            /\ \A a, b \in 1..Len(enriched_detections) : a < b => f[a] < f[b]
            /\ {f[a] : a \in 1..Len(enriched_detections)} = PassingPositions
            /\ \A a \in 1..Len(enriched_detections) :
                  /\ enriched_detections[a].label = raw_detections[f[a]].label
                  /\ enriched_detections[a].category = raw_detections[f[a]].category
                  /\ enriched_detections[a].confidence = raw_detections[f[a]].confidence

\* Of three raw detections the second was dropped; the first and the third,
\* with different labels, are the two results, in this order.
C14_Witness ==
    /\ det_pc = "enriched"
    /\ Len(raw_detections) = 3
    /\ PassingPositions = {1, 3}
    /\ Len(enriched_detections) = 2
    /\ enriched_detections[1].label = raw_detections[1].label
    /\ enriched_detections[2].label = raw_detections[3].label
    /\ raw_detections[1].label # raw_detections[3].label

\* The value a descriptor gives a capability: under its first key, else under
\* its second key, else the default.
Capability(device_info, key, alias, default) ==
    IF key \in DOMAIN device_info THEN device_info[key]
    ELSE IF alias \in DOMAIN device_info THEN device_info[alias]
    ELSE default

\* C15: with missing fields defaulted to memory 4, cores 4, accelerator 0,
\* a descriptor is low_end when memory <= 2 or cores <= 2, otherwise high_end
\* when memory >= 8 and cores >= 8 and accelerator >= 2, otherwise mid_range;
\* the empty descriptor is mid_range.
C15_Tiers ==
    \A i \in 1..Len(opt_results) :
        LET d      == opt_request[1].device_info
            memory == Capability(d, "memory", "deviceMemory", 4)
            cores  == Capability(d, "cores", "hardwareConcurrency", 4)
            gpu    == Capability(d, "gpu", "gpuTier", 0)
            low    == memory <= 2 \/ cores <= 2
            high   == memory >= 8 /\ cores >= 8 /\ gpu >= 2
            tier   == opt_results[i].device_class
        IN  /\ low => tier = "low_end"
            /\ (~low /\ high) => tier = "high_end"
            /\ (~low /\ ~high) => tier = "mid_range"
            /\ DOMAIN d = {} => tier = "mid_range"

\* A descriptor that meets the high_end test on cores and accelerator and has
\* memory 2 was classified low_end.
C15_Witness ==
    /\ opt_results # <<>>
    /\ opt_request[1].device_info = [memory |-> 2, cores |-> 8, gpu |-> 2]
    /\ opt_results[1].device_class = "low_end"

\* C16: of two descriptors that differ only in the second having more memory
\* and/or cores, optimized for the same quality, the second's predicted
\* latency is at most the first's.
C16_LatencyMonotone ==
    (opt_results # <<>> /\ stronger_result # NoValue
        /\ MoreCapable(opt_request[1].device_info, stronger[1])) =>
        stronger_result[1].returned.expected_performance.estimated_inference_time
            <= opt_results[1].returned.expected_performance.estimated_inference_time

\* C17: of two such descriptors the second's target resolution is at least
\* the first's in both dimensions.
C17_ResolutionMonotone ==
    (opt_results # <<>> /\ stronger_result # NoValue
        /\ MoreCapable(opt_request[1].device_info, stronger[1])) =>
        LET first  == opt_results[1].returned.optimized_config.target_size
            second == stronger_result[1].returned.optimized_config.target_size
        IN  second[1] >= first[1] /\ second[2] >= first[2]

\* A low_end and a high_end descriptor that differ in memory only, optimized
\* for balanced quality: 320x320 and 640x640.
C17_Witness ==
    /\ opt_results # <<>>
    /\ stronger_result # NoValue
    /\ opt_request[1].quality = "balanced"
    /\ opt_request[1].device_info.cores = stronger[1].cores
    /\ opt_results[1].returned.optimized_config.target_size = <<320, 320>>
    /\ stronger_result[1].returned.optimized_config.target_size = <<640, 640>>

\* C18: the calls made with identical inputs return identical profile,
\* prediction and recommendations whatever other calls run between them, and
\* no call changes the table of base profiles: neither one that writes its
\* quality overrides into its configuration nor one whose prediction raises
\* and that returns the table's own mid_range entry.
C18_Idempotent ==
    /\ [](\A i, j \in 1..Len(opt_results) :
             opt_results[i].returned = opt_results[j].returned)
    /\ [][device_profiles' = device_profiles]_vars

\* Two balanced calls with the same inputs, and between them a call for
\* accurate quality on a descriptor of the same tier.
C18_Witness ==
    /\ Len(opt_results) = 2
    /\ opt_request[1].quality = "balanced"
    /\ opt_other # NoValue
    /\ opt_other[1].after = 1
    /\ opt_other[1].quality = "accurate"
    /\ opt_other[1].device_class = opt_results[1].device_class
    /\ opt_other[1].returned.optimized_config.target_size
           # opt_results[1].returned.optimized_config.target_size

\* C19: for quality fast the profile's resolution is at most 320 in each
\* dimension and at most the base resolution of the descriptor's tier, and
\* enhancement and denoise are off.
C19_FastClamps ==
    \A i \in 1..Len(opt_results) :
        opt_request[1].quality = "fast" =>
            LET config == opt_results[i].returned.optimized_config
                base   == DeviceProfiles[opt_results[i].device_class].target_size
            IN  /\ config.target_size[1] <= 320
                /\ config.target_size[2] <= 320
                /\ config.target_size[1] <= base[1]
                /\ config.target_size[2] <= base[2]
                /\ ~config.enhance_quality
                /\ ~config.denoise

\* A fast call for a high_end descriptor returned 320x320.
C19_Witness ==
    /\ opt_results # <<>>
    /\ opt_request[1].quality = "fast"
    /\ opt_results[1].device_class = "high_end"
    /\ opt_results[1].returned.optimized_config.target_size = <<320, 320>>

\* C20: for quality accurate the profile's resolution is at least 640 in
\* each dimension and at least the base resolution of the descriptor's tier,
\* and enhancement and denoise are on.
C20_AccurateRaises ==
    \A i \in 1..Len(opt_results) :
        opt_request[1].quality = "accurate" =>
            LET config == opt_results[i].returned.optimized_config
                base   == DeviceProfiles[opt_results[i].device_class].target_size
            IN  /\ config.target_size[1] >= 640
                /\ config.target_size[2] >= 640
                /\ config.target_size[1] >= base[1]
                /\ config.target_size[2] >= base[2]
                /\ config.enhance_quality
                /\ config.denoise

\* An accurate call for a low_end descriptor returned 640x640 with both
\* flags on.
C20_Witness ==
    /\ opt_results # <<>>
    /\ opt_request[1].quality = "accurate"
    /\ opt_results[1].device_class = "low_end"
    /\ opt_results[1].returned.optimized_config.target_size = <<640, 640>>
    /\ opt_results[1].returned.optimized_config.enhance_quality

\* C21: for quality balanced the returned profile equals the base profile of
\* the descriptor's tier in every field; a device with memory 1 and cores 1
\* is low_end and gets 320x320 with the accelerator off.
C21_BalancedIsBase ==
    \A i \in 1..Len(opt_results) :
        opt_request[1].quality = "balanced" =>
            LET config == opt_results[i].returned.optimized_config
                tier   == opt_results[i].device_class
            IN  /\ config = DeviceProfiles[tier]
                /\ opt_request[1].device_info = [memory |-> 1, cores |-> 1] =>
                       /\ tier = "low_end"
                       /\ config.target_size = <<320, 320>>
                       /\ ~config.use_gpu

\* A balanced call for the device with memory 1 and cores 1 has returned.
C21_Witness ==
    /\ opt_results # <<>>
    /\ opt_request[1].quality = "balanced"
    /\ opt_request[1].device_info = [memory |-> 1, cores |-> 1]
    /\ opt_results[1].device_class = "low_end"
    /\ ~opt_results[1].returned.optimized_config.use_gpu

\* C22: for a fixed descriptor and fixed flags the predicted latency, memory
\* use and accuracy do not fall when the pixel count grows over the
\* resolutions 320, 480, 640, and the accuracy is never above 0.98.
C22_PredictionMonotone ==
    /\ \A a, b \in DOMAIN predictions :
          a * a < b * b =>
              /\ predictions[a].estimated_inference_time
                     <= predictions[b].estimated_inference_time
              /\ predictions[a].estimated_memory_usage
                     <= predictions[b].estimated_memory_usage
              /\ predictions[a].estimated_accuracy <= predictions[b].estimated_accuracy
    /\ \A a \in DOMAIN predictions : predictions[a].estimated_accuracy <= 98

\* All three resolutions predicted for one input, the accuracy at its ceiling
\* for 640 and below it for 480.
C22_Witness ==
    /\ DOMAIN predictions = {320, 480, 640}
    /\ predictions[640].estimated_accuracy = 98
    /\ predictions[480].estimated_accuracy < 98
    /\ predictions[320].estimated_inference_time < predictions[480].estimated_inference_time

\* The payload is malformed or of an encoding the decoder does not support.
Malformed(data) ==
    \/ data.prefix = "data_url_no_comma"
    \/ data.base64 = "bad_padding"
    \/ data.content \in {"not_image", "empty"}

\* C23: a request with a malformed or unsupported payload fails at the decode
\* stage: there is no image, blank or other, and none of preprocess, infer,
\* validate, enrich runs.
C23_DecodeFailsClosed ==
    (Malformed(image_data) /\ img_pc # "decode") =>
        /\ img_pc = "failed"
        /\ img_error # NoValue
        /\ image = NoValue
        /\ img_ran = <<"decode">>

\* A data URL whose bytes are no image was refused by the decode stage.
C23_Witness ==
    /\ img_pc = "failed"
    /\ image_data = [prefix |-> "data_url", base64 |-> "valid", content |-> "not_image"]
    /\ img_ran = <<"decode">>

\* C24: the failure of a request with a malformed image is a rejection of the
\* client's request (a 4xx status), of another kind than the service failure
\* (a 5xx status) that answers a failure of the predictor.
C24_FailureKinds ==
    img_pc = "failed" =>
        IF img_ran = <<"decode">>
        THEN img_response[1].status_code \in 400..499
        ELSE img_response[1].status_code \in 500..599

\* C25: a failure inside a preprocessing step does not fail the request:
\* preprocessing returns the image as the last step that succeeded left it
\* and the request goes on to infer, validate and enrich.
C25_PreprocessDegrades ==
    ("preprocess" \in Range(img_ran) /\ fault # "infer") =>
        LET planned == PlannedSteps(img_config) IN
        /\ img_error = NoValue
        /\ img_pc \in {"infer", "validate", "enrich", "done"}
        /\ img_pc = "done" => img_ran = PipelineOrder
        /\ \E n \in 0..Len(planned) :
              /\ image[1].steps = <<"decoded">> \o SubSeq(planned, 1, n)
              /\ \A i \in 1..n : planned[i] # fault
              /\ n < Len(planned) => planned[n + 1] = fault

\* The denoise step raised after resize and enhancement: the request ended
\* with all five stages run on the resized, enhanced image.
C25_Witness ==
    /\ img_pc = "done"
    /\ fault = "denoise"
    /\ image[1].steps = <<"decoded", "resize", "enhance">>
    /\ image[1].shape = <<320, 320>>
    /\ img_ran = PipelineOrder

\* C26: a detection whose normalized label has no entry in the environmental
\* database is enriched with the empty impact mapping and with the generic
\* text about local guidelines as its disposal instruction.
C26_UnknownLabelFallback ==
    det_pc = "enriched" =>
        \A i \in 1..Len(enriched_detections) :
            LET key == LabelKey(validated_detections[i].label) IN
            key \notin DOMAIN environmental_database =>
                /\ enriched_detections[i].environmental_impact = <<>>
                /\ enriched_detections[i].instructions =
                       <<"Check local guidelines for disposing ", Spoken(key)>>

\* The steps of task t after its call, up to the return of warm_up or of
\* classify_image.
TaskStep(t) ==
    \/ WaiterAcquire(t)
    \/ \E ok \in BOOLEAN : InitDone(t, ok)
    \/ \E out \in {"ok", "error"} : StageFinish(t, out)
    \/ \E d \in ProcTimes : Resume(t, d)

\* C27: no interleaving of sweeps, warm-up calls and classify requests
\* reaches a deadlock: the cache lock is held at no suspension point, the
\* sleeping janitor can always go on, lifespan's warm-up can always end, and
\* every task that has not returned can take a step, or waits only for the
\* initialization lock while the lock's holder, or the first of the queue
\* when the lock is free, can take a step.
C27_NoDeadlock ==
    /\ ~memory_lock
    /\ janitor_pc = "sleeping" => ENABLED (Sweep("none") \/ Cancelled)
    /\ lifespan_pc = "warming_up" => lock_locked /\ ENABLED StartupDone(TRUE)
    /\ lock_locked =>
          \/ \E u \in Tasks : pc[u] = "initializing"
          \/ lifespan_pc = "warming_up"
    /\ \A t \in Tasks :
          pc[t] \notin {"idle", "done", "respond"} =>
              \/ ENABLED TaskStep(t)
              \/ /\ pc[t] = "lock_wait"
                 /\ t \in Range(lock_waiters)
                 /\ \E u \in Tasks \ {t} :
                       /\ pc[u] = "initializing" \/ (~lock_locked /\ u = Head(lock_waiters))
                       /\ ENABLED TaskStep(u)

\* A classify request waits for the initialization lock, which a caller of
\* warm_up holds at its suspension point, with the cache lock free.
C27_Witness ==
    \E t, u \in Tasks :
        /\ pc[t] = "lock_wait" /\ op[t] = "detect"
        /\ pc[u] = "initializing" /\ op[u] = "warm_up"
        /\ lock_locked /\ ~memory_lock

\* C28: every read and write of the model cache and of the readiness flag,
\* by the janitor, warm-up, the request handlers, the health operation and
\* shutdown, is made while holding one and the same lock.
C28_OneLock == \E l \in Locks : \A a \in accesses : l \in a.locks

\* C29: once the janitor's cancellation is requested no new sweep starts, a
\* sweep that removed a handle removed every expired handle, the cache lock
\* is not left held, and the janitor task terminates.
C29_CancelStopsJanitor ==
    /\ [][cancel_requested =>
              /\ last_sweep' = last_sweep
              /\ last_evicted' = last_evicted
              /\ DOMAIN model_cache \subseteq DOMAIN model_cache'
              /\ janitor_pc' \in {janitor_pc, "cancelled"}]_vars
    /\ [][(DOMAIN model_cache' # DOMAIN model_cache
              /\ DOMAIN model_cache' \subseteq DOMAIN model_cache) =>
              /\ \A k \in DOMAIN model_cache' : ~Expired(now, model_cache'[k])
              /\ \A k \in DOMAIN model_cache \ DOMAIN model_cache' :
                     Expired(now, model_cache[k])]_vars
    /\ [](~memory_lock)
    /\ cancel_requested ~> (janitor_pc \in {"cancelled", "stopped_on_error"})

\* The janitor was cancelled after a sweep that evicted a handle.
C29_Witness ==
    /\ janitor_pc = "cancelled"
    /\ cancel_requested
    /\ last_evicted # {}
    /\ ~memory_lock

\* C30: no stage of a classify request starts while the classifier is not
\* ready: a request that arrives before readiness waits for warm-up with no
\* stage started, and a request whose warm-up failed has failed with no
\* stage run.
C30_NoStageBeforeReady ==
    \A t \in Tasks :
        /\ stage_log[t] # <<>> => initialized
        /\ pc[t] \in {"lock_wait", "initializing"} => stage_log[t] = <<>>
        /\ wu_result[t] = "error" =>
              /\ stage_log[t] = <<>>
              /\ result[t] = "error"
              /\ pc[t] = "done"

\* One detect request failed in its warm-up with no stage run, and another,
\* which had waited for the lock meanwhile, initialized the classifier itself
\* and started its stages.
C30_Witness ==
    \E t, u \in Tasks :
        /\ op[u] = "detect" /\ wu_result[u] = "error" /\ stage_log[u] = <<>>
        /\ op[t] = "detect" /\ waited_on_failed[t] /\ attempted[t]
        /\ stage_log[t] # <<>>

\* C31: for a recycle detection whose fact has an energy-saved fraction f, the
\* percentage of the energy-saved tip is f x 100 rounded to the nearest
\* integer.
C31_PercentageRounded ==
    (/\ tips # NoValue
     /\ tip_input[1].category = "recycle"
     /\ tip_input[1].env_data # NoValue
     /\ "energy_saved_recycling" \in DOMAIN tip_input[1].env_data[1]) =>
        \E i \in 1..Len(tips[1]) :
            /\ tips[1][i].text =
                   "Recycling saves {percentage}% energy compared to manufacturing new"
            /\ tips[1][i].values =
                   <<RoundedPercentage(tip_input[1].env_data[1].energy_saved_recycling)>>

\* The detections of a response without their ids.
WithoutIds(detections) ==
    [i \in 1..Len(detections) |->
        [field \in DOMAIN detections[i] \ {"id"} |-> detections[i][field]]]

\* C32 as stated: requests that differ only in confidence_threshold get the
\* same detections, every field of every detection included.
C32_SameDetections ==
    \A i, j \in 1..Len(det_returned) :
        det_returned[i].detections = det_returned[j].detections

\* C32: the confidence_threshold of a detect request has no influence on
\* which detections are returned: requests that differ only in their
\* threshold get detections that are the same in every field but the id,
\* which enrichment draws anew for each detection of each request; the
\* detections are those of the predictor that pass the category policy.
C32_ThresholdIgnored ==
    /\ \A i, j \in 1..Len(det_returned) :
           WithoutIds(det_returned[i].detections) = WithoutIds(det_returned[j].detections)
    /\ \A i \in 1..Len(det_returned) :
           LET returned == det_returned[i].detections
               passing  == SelectSeq(MockDetections, Passes)
           IN  /\ Len(returned) = Len(passing)
               /\ \A k \in 1..Len(returned) :
                      /\ returned[k].label = passing[k].label
                      /\ returned[k].confidence = passing[k].confidence
                      /\ returned[k].bbox = passing[k].bbox

\* A request with threshold 0 and one with threshold 1.0 have been answered,
\* each with the four detections of the predictor, none of which has
\* confidence 1.0; the two responses differ in the ids alone.
C32_Witness ==
    /\ Len(det_returned) = 2
    /\ det_returned[1].confidence_threshold = 0
    /\ det_returned[2].confidence_threshold = 100
    /\ Len(det_returned[2].detections) = Len(MockDetections)
    /\ \A k \in 1..Len(det_returned[2].detections) :
           det_returned[2].detections[k].confidence < 100
    /\ det_returned[1].detections # det_returned[2].detections

\* The detect requests that completed successfully, and those among them
\* whose background update has run.
Succeeded == {t \in Tasks : op[t] = "detect" /\ result[t] = "ok"}
Counted   == {t \in Succeeded : pc[t] = "done"}

\* C33: the statistics are updated once for each detect request that
\* completes successfully and not at all for one that fails or for a call of
\* warm_up: total_requests is the number of successful detect requests whose
\* background update has run, and only such a request's update changes it.
C33_CountsSuccessesOnce ==
    /\ [](performance_stats.total_requests = Cardinality(Counted))
    /\ [](Len(recorded) = Cardinality(Counted))
    /\ [](\A t \in Tasks : pc[t] = "respond" => t \in Succeeded)
    /\ [][performance_stats' # performance_stats =>
              \E t \in Succeeded :
                  /\ pc[t] = "respond" /\ pc'[t] = "done"
                  /\ performance_stats'.total_requests =
                         performance_stats.total_requests + 1]_vars
    /\ [][\A t \in Tasks : pc[t] = "done" => pc'[t] = "done"]_vars

\* One detect request succeeded and was counted; another failed at a stage
\* and was not.
C33_Witness ==
    \E t, u \in Tasks :
        /\ t \in Counted
        /\ op[u] = "detect" /\ result[u] = "error" /\ stage_log[u] # <<>> /\ pc[u] = "done"
        /\ performance_stats.total_requests = 1

====
